---- MODULE Spec2Model ----
(***************************************************************************)
(* Competitive Analysis Agent: the resilient call layer (vector_store.py), *)
(* the ReAct orchestrator (react_agent.py), the agent with its history     *)
(* ledger (competitive_agent.py) and the module-level ledger               *)
(* (history_manager.py).                                                   *)
(*                                                                         *)
(* Strings are sequences of tokens.  A token is a single character, or a   *)
(* fragment: a literal of the source, or a phrase of a provider message.   *)
(* Durations of time.sleep are in milliseconds.                            *)
(***************************************************************************)
EXTENDS Integers, Sequences, FiniteSets, TLC

VARIABLES
    \* CompetitiveAnalysisAgent fields
    max_history_size, query_history, vector_index, competitor_list,
    is_initialized, initialization_error,
    \* history_manager.query_history (module level)
    hm_query_history,
    \* process-wide configuration
    embed_mode,            \* input_type of Settings.embed_model
    api_key_configured,    \* COHERE_API_KEY_CONFIGURED
    now,                   \* wall clock, in seconds
    \* the call-layer function in progress
    fn, caller, query, attempt, max_retries, calls, waits, signals, result,
    \* process_query / reason_and_act in progress
    pc, pq, intent, similarity_k, response,
    \* observations
    react_result, mode_switched, reconfigured, last_query, returned, appended,
    hm_appended, stats, n_queries, n_inits, competitors_arg, analyzed, sub_goals,
    \* the configured retrieval depth, the last answer of get_recent_history,
    \* and the create_vector_index call in progress
    similarity_top_k, recent, index_call,
    \* what the last initialize call returned
    init_result,
    \* what handle_user_input did with the last input line
    cli_handled

agent_vars == <<max_history_size, query_history, vector_index, competitor_list,
                is_initialized, initialization_error>>
call_vars == <<fn, caller, query, attempt, max_retries, calls, waits, signals,
               result>>
react_vars == <<pc, pq, intent, similarity_k, response>>
obs_vars == <<react_result, mode_switched, reconfigured, last_query, returned,
              appended, hm_appended, stats, n_queries, n_inits, competitors_arg,
              analyzed, sub_goals>>
aux_vars == <<similarity_top_k, recent, index_call, init_result, cli_handled>>
vars == <<agent_vars, hm_query_history, embed_mode, api_key_configured, now,
          call_vars, react_vars, obs_vars, aux_vars>>

----------------------------------------------------------------------------
(* Bounds *)

MaxBudget == 3      \* largest max_retries of a direct call
MaxQueries == 1     \* process_query calls that reach reason_and_act, per run
MaxInits == 2       \* initialize calls, per run
MaxElapsed == 1     \* longest processing time of a query, in seconds
MaxCapacity == 2    \* largest max_history_size of a ledger exercised directly
MaxAppends == 3     \* direct _add_to_history calls, per run
MaxModuleAppends == 6   \* history_manager.add_to_history calls between clears
MaxClock == 1       \* seconds that pass while a ledger is exercised directly

----------------------------------------------------------------------------
(* Strings *)

IsSpace(c) == c = " "

RECURSIVE lstrip(_)
lstrip(s) == IF s # <<>> /\ IsSpace(Head(s)) THEN lstrip(Tail(s)) ELSE s

RECURSIVE rstrip(_)
rstrip(s) ==
    IF s # <<>> /\ IsSpace(s[Len(s)]) THEN rstrip(SubSeq(s, 1, Len(s) - 1)) ELSE s

\* str.strip()
strip(s) == rstrip(lstrip(s))

\* Fragments and the needles their lower-cased text contains (a needle is a
\* substring some `in str(e).lower()` test of the source looks for).
FragmentContains ==
    { <<"rate_limit", "rate_limit">>, <<"rate_limit", "limit">>,
      <<"429", "429">>,
      <<"token limit", "token">>, <<"token limit", "limit">>,
      <<"invalid", "invalid">>,
      <<"unauthorized", "unauthorized">>,
      <<"not found", "not found">>,
      <<"404", "404">>,
      <<"rate limit", "rate limit">>, <<"rate limit", "limit">>,
      <<"network", "network">>,
      <<"connection", "connection">>,
      <<"Rate limit exceeded while configuring search embedding", "rate limit">>,
      <<"Rate limit exceeded while configuring search embedding", "limit">>,
      <<"Rate limit exceeded while configuring indexing embedding", "rate limit">>,
      <<"Rate limit exceeded while configuring indexing embedding", "limit">>,
      <<"Invalid API key: ", "invalid">> }

\* needle in str(e).lower()   (for "429" and "404": needle in str(e))
Has(s, needle) == \E i \in DOMAIN s : <<s[i], needle>> \in FragmentContains

----------------------------------------------------------------------------
(* Exceptions and provider behaviours *)

COHERE_EXCEPTIONS ==
    { "TooManyRequestsError", "UnauthorizedError", "BadRequestError",
      "NotFoundError", "InternalServerError", "ServiceUnavailableError",
      "ForbiddenError", "InvalidTokenError" }

\* requests.exceptions: ConnectionError and Timeout derive from RequestException
NETWORK_EXCEPTIONS == { "RequestException", "ConnectionError", "Timeout" }

ExceptionClasses ==
    COHERE_EXCEPTIONS \cup NETWORK_EXCEPTIONS \cup {"ValueError", "Exception"}

\* Texts a provider exception may carry: nothing the source looks for, or a
\* phrase some test of the source looks for.
ErrorTexts ==
    { <<>>, <<"429">>, <<"token limit">>, <<"invalid">>, <<"unauthorized">>,
      <<"not found">>, <<"rate limit">>, <<"connection">> }

Exc(c, t) == [cls |-> c, text |-> t]

ProviderErrors == { Exc(c, t) : c \in ExceptionClasses, t \in ErrorTexts }

NoError == Exc("", <<>>)

\* What query_engine.query(query) hands back: texts, some of them blank.
ProviderResponses == { <<"o", "k">>, <<" ", "o", "k", " ">>, <<>>, <<" ">> }

QueryBehaviours ==
    { [kind |-> "response", text |-> r, err |-> NoError] : r \in ProviderResponses }
    \cup { [kind |-> "raise", text |-> <<>>, err |-> e] : e \in ProviderErrors }

\* What constructing CohereEmbedding does: succeeds or raises.
ConfigBehaviours ==
    { [kind |-> "ok", text |-> <<>>, err |-> NoError] }
    \cup { [kind |-> "raise", text |-> <<>>, err |-> e] : e \in ProviderErrors }

AUTH_EXCEPTIONS == {"UnauthorizedError", "InvalidTokenError", "ForbiddenError"}

\* The signal a provider behaviour gives, by the kind of the response or the
\* class of the exception (whatever its text).
SignalOf(b) ==
    IF b.kind = "ok" THEN "ok"
    ELSE IF b.kind = "response" THEN
        IF strip(b.text) = <<>> THEN "empty" ELSE "response"
    ELSE IF b.err.cls = "TooManyRequestsError" THEN "rate_limit"
    ELSE IF b.err.cls \in AUTH_EXCEPTIONS THEN "authorization"
    ELSE IF b.err.cls = "NotFoundError" THEN "not_found"
    ELSE IF b.err.cls \in COHERE_EXCEPTIONS THEN "api"
    ELSE IF b.err.cls \in NETWORK_EXCEPTIONS THEN "network"
    ELSE IF b.err.cls = "ValueError" THEN "validation"
    ELSE "other"

is_rate_limit_error(error) ==
    \/ error.cls = "TooManyRequestsError"
    \/ Has(error.text, "rate_limit")
    \/ Has(error.text, "429")

is_auth_error(error) ==
    \/ error.cls \in AUTH_EXCEPTIONS
    \/ Has(error.text, "invalid")
    \/ Has(error.text, "unauthorized")

is_not_found_error(error) ==
    \/ error.cls = "NotFoundError"
    \/ Has(error.text, "not found")
    \/ Has(error.text, "404")

----------------------------------------------------------------------------
(* Outcomes of one pass through a retry loop *)

Pow2(n) == IF n <= 0 THEN 1 ELSE 2 ^ n

\* the pass ends in `continue` after time.sleep(ms)
Retry(ms, called) ==
    [next |-> "continue", wait |-> ms, value |-> <<>>, err |-> NoError, called |-> called]
\* the pass ends in `return value`
Return(v, called) ==
    [next |-> "return", wait |-> 0, value |-> v, err |-> NoError, called |-> called]
\* the pass ends in `return` (None)
ReturnNone(called) ==
    [next |-> "return_none", wait |-> 0, value |-> <<>>, err |-> NoError, called |-> called]
\* the pass ends in `raise err`
Raise(e, called) ==
    [next |-> "raise", wait |-> 0, value |-> <<>>, err |-> e, called |-> called]

MSG_APOLOGY == <<"I apologize, but I couldn't generate a meaningful response to your query. Please try rephrasing your question.">>
MSG_RATE_LIMIT == <<"I'm currently experiencing rate limits. Please try again in a few minutes.">>
MSG_TOO_COMPLEX == <<"Your query is too complex. Please try breaking it into smaller, more specific questions.">>
MSG_REPHRASE == <<"There was an issue processing your query. Please rephrase your question and try again.">>
MSG_API_ERROR == <<"I encountered an API error while processing your query. Please try again later.">>
MSG_CONNECTIVITY == <<"I'm having trouble connecting to the service. Please check your internet connection and try again.">>
MSG_UNEXPECTED == <<"I encountered an unexpected error while processing your query. Please try again or contact support if the issue persists.">>
MSG_VALIDATION == <<"Query validation error: ">>
TXT_QUERY_EMPTY == <<"Query cannot be empty">>
TXT_QUERY_SHORT == <<"Query too short. Please provide a more detailed question.">>

MinQueryLen == 3

\* safe_query_except with the rate-limit retry test off by one (a < m)
safe_query_except_rate_off_by_one(e, a, m, called) ==
    IF e.cls \in COHERE_EXCEPTIONS /\ is_rate_limit_error(e) THEN
        IF a < m THEN Retry(Pow2(a) * 2 * 1000, called)
        ELSE Return(MSG_RATE_LIMIT, called)
    ELSE IF e.cls = "ValueError" THEN Return(MSG_VALIDATION \o e.text, called)
    ELSE IF a < m - 1 THEN Retry(1000, called)
    ELSE Return(MSG_UNEXPECTED, called)

\* safe_query_except waiting a constant second after a network error
safe_query_except_network_constant(e, a, m, called) ==
    IF e.cls \in COHERE_EXCEPTIONS THEN
        IF is_rate_limit_error(e) THEN
            IF a < m - 1 THEN Retry(Pow2(a) * 2 * 1000, called)
            ELSE Return(MSG_RATE_LIMIT, called)
        ELSE IF Has(e.text, "token") /\ Has(e.text, "limit") THEN
            Return(MSG_TOO_COMPLEX, called)
        ELSE IF Has(e.text, "invalid") THEN
            Return(MSG_REPHRASE, called)
        ELSE
            IF a < m - 1 THEN Retry(1000, called)
            ELSE Return(MSG_API_ERROR, called)
    ELSE IF e.cls \in NETWORK_EXCEPTIONS THEN
        IF a < m - 1 THEN Retry(1000, called)
        ELSE Return(MSG_CONNECTIVITY, called)
    ELSE IF e.cls = "ValueError" THEN
        Return(MSG_VALIDATION \o e.text, called)
    ELSE
        IF a < m - 1 THEN Retry(1000, called)
        ELSE Return(MSG_UNEXPECTED, called)

\* safe_query_except escalating the wait after an unclassified exception
safe_query_except_other_escalates(e, a, m, called) ==
    IF e.cls \in COHERE_EXCEPTIONS THEN
        IF is_rate_limit_error(e) THEN
            IF a < m - 1 THEN Retry(Pow2(a) * 2 * 1000, called)
            ELSE Return(MSG_RATE_LIMIT, called)
        ELSE IF Has(e.text, "token") /\ Has(e.text, "limit") THEN
            Return(MSG_TOO_COMPLEX, called)
        ELSE IF Has(e.text, "invalid") THEN
            Return(MSG_REPHRASE, called)
        ELSE
            IF a < m - 1 THEN Retry(1000, called)
            ELSE Return(MSG_API_ERROR, called)
    ELSE IF e.cls \in NETWORK_EXCEPTIONS THEN
        IF a < m - 1 THEN Retry(Pow2(a) * 1000, called)
        ELSE Return(MSG_CONNECTIVITY, called)
    ELSE IF e.cls = "ValueError" THEN
        Return(MSG_VALIDATION \o e.text, called)
    ELSE
        IF a < m - 1 THEN Retry(Pow2(a) * 1000, called)
        ELSE Return(MSG_UNEXPECTED, called)

\* safe_query_except answering an exhausted network failure with the generic message
safe_query_except_generic_on_exhaustion(e, a, m, called) ==
    IF e.cls \in COHERE_EXCEPTIONS THEN
        IF is_rate_limit_error(e) THEN
            IF a < m - 1 THEN Retry(Pow2(a) * 2 * 1000, called)
            ELSE Return(MSG_RATE_LIMIT, called)
        ELSE IF Has(e.text, "token") /\ Has(e.text, "limit") THEN
            Return(MSG_TOO_COMPLEX, called)
        ELSE IF Has(e.text, "invalid") THEN
            Return(MSG_REPHRASE, called)
        ELSE
            IF a < m - 1 THEN Retry(1000, called)
            ELSE Return(MSG_API_ERROR, called)
    ELSE IF e.cls \in NETWORK_EXCEPTIONS THEN
        IF a < m - 1 THEN Retry(Pow2(a) * 1000, called)
        ELSE Return(MSG_UNEXPECTED, called)
    ELSE IF e.cls = "ValueError" THEN
        Return(MSG_VALIDATION \o e.text, called)
    ELSE
        IF a < m - 1 THEN Retry(1000, called)
        ELSE Return(MSG_UNEXPECTED, called)

\* the except clauses of safe_query_engine_call, for exception e raised in
\* pass a of m; called: whether the provider was called in this pass
safe_query_except(e, a, m, called) ==
    IF e.cls \in COHERE_EXCEPTIONS THEN
        IF is_rate_limit_error(e) THEN
            IF a < m - 1 THEN Retry(Pow2(a) * 2 * 1000, called)
            ELSE Return(MSG_RATE_LIMIT, called)
        ELSE IF Has(e.text, "token") /\ Has(e.text, "limit") THEN
            Return(MSG_TOO_COMPLEX, called)
        ELSE IF Has(e.text, "invalid") THEN
            Return(MSG_REPHRASE, called)
        ELSE
            IF a < m - 1 THEN Retry(1000, called)
            ELSE Return(MSG_API_ERROR, called)
    ELSE IF e.cls \in NETWORK_EXCEPTIONS THEN
        IF a < m - 1 THEN Retry(Pow2(a) * 1000, called)
        ELSE Return(MSG_CONNECTIVITY, called)
    ELSE IF e.cls = "ValueError" THEN
        Return(MSG_VALIDATION \o e.text, called)
    ELSE
        IF a < m - 1 THEN Retry(1000, called)
        ELSE Return(MSG_UNEXPECTED, called)

\* safe_query_pass giving up at the first empty response
safe_query_pass_no_empty_retry(q, a, m, b) ==
    IF strip(q) = <<>> THEN
        safe_query_except(Exc("ValueError", TXT_QUERY_EMPTY), a, m, FALSE)
    ELSE IF Len(strip(q)) < MinQueryLen THEN
        safe_query_except(Exc("ValueError", TXT_QUERY_SHORT), a, m, FALSE)
    ELSE IF b.kind = "raise" THEN
        safe_query_except(b.err, a, m, TRUE)
    ELSE IF strip(b.text) = <<>> THEN Return(MSG_APOLOGY, TRUE)
    ELSE Return(b.text, TRUE)

\* safe_query_pass without the minimum-length precondition
safe_query_pass_no_min_length(q, a, m, b) ==
    IF strip(q) = <<>> THEN
        safe_query_except(Exc("ValueError", TXT_QUERY_EMPTY), a, m, FALSE)
    ELSE IF b.kind = "raise" THEN
        safe_query_except(b.err, a, m, TRUE)
    ELSE IF strip(b.text) = <<>> THEN
        IF a < m - 1 THEN Retry(1000, TRUE)
        ELSE Return(MSG_APOLOGY, TRUE)
    ELSE Return(b.text, TRUE)

\* safe_query_pass returning the response stripped
safe_query_pass_strips_response(q, a, m, b) ==
    IF strip(q) = <<>> THEN
        safe_query_except(Exc("ValueError", TXT_QUERY_EMPTY), a, m, FALSE)
    ELSE IF Len(strip(q)) < MinQueryLen THEN
        safe_query_except(Exc("ValueError", TXT_QUERY_SHORT), a, m, FALSE)
    ELSE IF b.kind = "raise" THEN
        safe_query_except(b.err, a, m, TRUE)
    ELSE IF strip(b.text) = <<>> THEN
        IF a < m - 1 THEN Retry(1000, TRUE)
        ELSE Return(MSG_APOLOGY, TRUE)
    ELSE Return(strip(b.text), TRUE)

\* the try block of safe_query_engine_call in pass a of m, the provider
\* behaving as b when called
safe_query_pass(q, a, m, b) ==
    IF strip(q) = <<>> THEN
        safe_query_except(Exc("ValueError", TXT_QUERY_EMPTY), a, m, FALSE)
    ELSE IF Len(strip(q)) < MinQueryLen THEN
        safe_query_except(Exc("ValueError", TXT_QUERY_SHORT), a, m, FALSE)
    ELSE IF b.kind = "raise" THEN
        safe_query_except(b.err, a, m, TRUE)
    ELSE IF strip(b.text) = <<>> THEN
        IF a < m - 1 THEN Retry(1000, TRUE)
        ELSE Return(MSG_APOLOGY, TRUE)
    ELSE Return(b.text, TRUE)

TXT_KEY_NOT_SET == <<"COHERE_API_KEY is not set or is empty">>

ConfigLiterals(direction) ==
    IF direction = "search_query"
    THEN [rate |-> <<"Rate limit exceeded while configuring search embedding">>,
          failed |-> <<"Failed to configure search embedding: ">>,
          after |-> <<"Failed to configure search embedding after {max_retries} attempts: ">>]
    ELSE [rate |-> <<"Rate limit exceeded while configuring indexing embedding">>,
          failed |-> <<"Failed to configure indexing embedding: ">>,
          after |-> <<"Failed to configure indexing embedding after {max_retries} attempts: ">>]

\* the except clauses of configure_embedding_for_search / _for_indexing
configure_except(direction, e, a, m, called) ==
    LET lit == ConfigLiterals(direction) IN
    IF e.cls \in COHERE_EXCEPTIONS THEN
        IF is_rate_limit_error(e) THEN
            IF a < m - 1 THEN Retry(1000, called)
            ELSE Raise(Exc("RuntimeError", lit.rate), called)
        ELSE IF is_auth_error(e) THEN
            Raise(Exc("ValueError", <<"Invalid API key: ">> \o e.text), called)
        ELSE
            IF a < m - 1 THEN Retry(500, called)
            ELSE Raise(Exc("RuntimeError", lit.failed \o e.text), called)
    ELSE
        IF a < m - 1 THEN Retry(500, called)
        ELSE Raise(Exc("RuntimeError", lit.after \o e.text), called)

\* the try block of configure_embedding_for_search / _for_indexing
configure_pass(direction, keyok, a, m, b) ==
    IF ~keyok THEN
        configure_except(direction, Exc("ValueError", TXT_KEY_NOT_SET), a, m, FALSE)
    ELSE IF b.kind = "raise" THEN
        configure_except(direction, b.err, a, m, TRUE)
    ELSE ReturnNone(TRUE)

----------------------------------------------------------------------------
(* Query analysis: query_analyzer.py, on strings of single characters *)

UPPERCASE == <<"A", "B", "C", "D", "E", "F", "G", "H", "I", "J", "K", "L", "M", "N", "O", "P", "Q", "R", "S", "T", "U", "V", "W", "X", "Y", "Z">>
LOWERCASE == <<"a", "b", "c", "d", "e", "f", "g", "h", "i", "j", "k", "l", "m", "n", "o", "p", "q", "r", "s", "t", "u", "v", "w", "x", "y", "z">>

\* str.lower() and str.upper() of one character
lower_char(c) ==
    IF \E i \in DOMAIN UPPERCASE : UPPERCASE[i] = c
    THEN LOWERCASE[CHOOSE i \in DOMAIN UPPERCASE : UPPERCASE[i] = c]
    ELSE c
upper_char(c) ==
    IF \E i \in DOMAIN LOWERCASE : LOWERCASE[i] = c
    THEN UPPERCASE[CHOOSE i \in DOMAIN LOWERCASE : LOWERCASE[i] = c]
    ELSE c

\* str.lower()
lower(s) == [i \in DOMAIN s |-> lower_char(s[i])]

\* str.capitalize()
capitalize(s) ==
    [i \in DOMAIN s |-> IF i = 1 THEN upper_char(s[i]) ELSE lower_char(s[i])]

\* sub in s
Contains(s, sub) ==
    \E i \in 0 .. (Len(s) - Len(sub)) : SubSeq(s, i + 1, i + Len(sub)) = sub

\* s.replace(' ', by), by a string
RECURSIVE replace_space(_, _)
replace_space(s, by) ==
    IF s = <<>> THEN <<>>
    ELSE (IF IsSpace(Head(s)) THEN by ELSE <<Head(s)>>) \o replace_space(Tail(s), by)

\* the first word of a string that does not start with a space
RECURSIVE first_word(_)
first_word(s) ==
    IF s = <<>> \/ IsSpace(Head(s)) THEN <<>>
    ELSE <<Head(s)>> \o first_word(Tail(s))

\* s.split(): the words of s, separated by runs of whitespace
RECURSIVE split(_)
split(s) ==
    LET t == lstrip(s) IN
    IF t = <<>> THEN <<>>
    ELSE LET w == first_word(t)
         IN  <<w>> \o split(SubSeq(t, Len(w) + 1, Len(t)))

\* sep.join(words)
RECURSIVE join(_, _)
join(sep, words) ==
    IF words = <<>> THEN <<>>
    ELSE IF Len(words) = 1 THEN words[1]
    ELSE words[1] \o sep \o join(sep, Tail(words))

InSeq(x, s) == \E i \in DOMAIN s : s[i] = x

\* Python's None where a string or a list may stand
None == <<"None">>

\* a competitor_list entry that is no string: the float nan pandas gives a
\* missing 'Competitor Name' cell
NotAString == <<"float('nan')">>

IsString(x) == x # NotAString

\* ' '.join(word.capitalize() for word in competitor.split())
formatted_name(competitor) ==
    join(<<" ">>, [i \in DOMAIN split(competitor) |-> capitalize(split(competitor)[i])])

competitor_variations(competitor) ==
    << lower(competitor),
       replace_space(lower(competitor), <<>>),
       replace_space(lower(competitor), <<"-">>) >>

\* mention_competitor without the test for a name already listed
mention_competitor_no_dedup(mentioned, competitor, query_lower) ==
    IF \E v \in DOMAIN competitor_variations(competitor) :
           Contains(query_lower, competitor_variations(competitor)[v])
    THEN Append(mentioned, formatted_name(competitor))
    ELSE mentioned

\* lines 37-42 for one competitor: mentioned, the list so far
mention_competitor(mentioned, competitor, query_lower) ==
    IF /\ \E v \in DOMAIN competitor_variations(competitor) :
              Contains(query_lower, competitor_variations(competitor)[v])
       /\ ~InSeq(formatted_name(competitor), mentioned)
    THEN Append(mentioned, formatted_name(competitor))
    ELSE mentioned

\* the loop of lines 30-42 over competitors[1..n]
RECURSIVE competitors_mentioned(_, _, _)
competitors_mentioned(competitors, n, query_lower) ==
    IF n = 0 THEN <<>>
    ELSE mention_competitor(competitors_mentioned(competitors, n - 1, query_lower),
                            competitors[n], query_lower)

\* comparison_keywords without "vs"
comparison_keywords_without_vs ==
    <<
       <<"c", "o", "m", "p", "a", "r", "e">>, <<"v", "e", "r", "s", "u", "s">>, <<"d", "i", "f", "f", "e", "r", "e", "n", "c", "e">>,
       <<"b", "e", "t", "t", "e", "r">>, <<"a", "g", "a", "i", "n", "s", "t">>, <<"b", "e", "t", "w", "e", "e", "n">>
    >>

comparison_keywords ==
    <<
       <<"c", "o", "m", "p", "a", "r", "e">>, <<"v", "e", "r", "s", "u", "s">>, <<"v", "s">>,
       <<"d", "i", "f", "f", "e", "r", "e", "n", "c", "e">>, <<"b", "e", "t", "t", "e", "r">>, <<"a", "g", "a", "i", "n", "s", "t">>,
       <<"b", "e", "t", "w", "e", "e", "n">>
    >>

ASPECTS == <<"marketing", "financial", "product", "strengths", "weaknesses">>

aspect_keywords ==
    [ marketing |->
    <<
       <<"m", "a", "r", "k", "e", "t", "i", "n", "g">>, <<"s", "t", "r", "a", "t", "e", "g", "y">>, <<"p", "r", "o", "m", "o", "t", "i", "o", "n">>,
       <<"a", "d", "v", "e", "r", "t", "i", "s", "i", "n", "g">>, <<"c", "a", "m", "p", "a", "i", "g", "n">>, <<"s", "a", "l", "e", "s">>
    >>,
      financial |->
    <<
       <<"f", "i", "n", "a", "n", "c", "i", "a", "l">>, <<"r", "e", "v", "e", "n", "u", "e">>, <<"p", "r", "o", "f", "i", "t">>,
       <<"f", "u", "n", "d", "i", "n", "g">>, <<"v", "a", "l", "u", "a", "t", "i", "o", "n">>, <<"g", "r", "o", "w", "t", "h">>,
       <<"m", "o", "n", "e", "y">>
    >>,
      product |->
    <<
       <<"p", "r", "o", "d", "u", "c", "t">>, <<"f", "e", "a", "t", "u", "r", "e", "s">>, <<"t", "e", "c", "h", "n", "o", "l", "o", "g", "y">>,
       <<"s", "o", "l", "u", "t", "i", "o", "n">>, <<"p", "l", "a", "t", "f", "o", "r", "m">>, <<"s", "e", "r", "v", "i", "c", "e">>
    >>,
      strengths |->
    <<
       <<"s", "t", "r", "e", "n", "g", "t", "h">>, <<"a", "d", "v", "a", "n", "t", "a", "g", "e">>, <<"b", "e", "n", "e", "f", "i", "t">>,
       <<"s", "t", "r", "o", "n", "g">>, <<"g", "o", "o", "d">>, <<"p", "r", "o", "s">>
    >>,
      weaknesses |->
    <<
       <<"w", "e", "a", "k", "n", "e", "s", "s">>, <<"d", "i", "s", "a", "d", "v", "a", "n", "t", "a", "g", "e">>, <<"p", "r", "o", "b", "l", "e", "m">>,
       <<"w", "e", "a", "k">>, <<"b", "a", "d">>, <<"c", "o", "n", "s">>,
       <<"i", "s", "s", "u", "e">>
    >> ]

action_keywords ==
    <<
       <<"a", "n", "a", "l", "y", "z", "e">>, <<"e", "x", "p", "l", "a", "i", "n">>, <<"d", "e", "s", "c", "r", "i", "b", "e">>,
       <<"s", "u", "m", "m", "a", "r", "i", "z", "e">>, <<"e", "v", "a", "l", "u", "a", "t", "e">>, <<"a", "s", "s", "e", "s", "s">>,
       <<"r", "e", "v", "i", "e", "w">>
    >>

\* any(keyword in query_lower for keyword in keywords)
any_keyword(keywords, query_lower) ==
    \E i \in DOMAIN keywords : Contains(query_lower, keywords[i])

aspects_requested(query_lower) ==
    SelectSeq(ASPECTS, LAMBDA a : any_keyword(aspect_keywords[a], query_lower))

found_action_keywords(query_lower) ==
    SelectSeq(action_keywords, LAMBDA k : Contains(query_lower, k))

\* query_complexity calling two indicators complex already
query_complexity_from_two(n_competitors, n_aspects, comparison) ==
    IF n_competitors + n_aspects >= 2 \/ comparison THEN "complex"
    ELSE IF n_competitors + n_aspects > 0 THEN "moderate"
    ELSE "simple"

\* lines 70-75
query_complexity(n_competitors, n_aspects, comparison) ==
    IF n_competitors + n_aspects > 2 \/ comparison THEN "complex"
    ELSE IF n_competitors + n_aspects > 0 THEN "moderate"
    ELSE "simple"

\* the competitor list used when the caller passes none
DEFAULT_COMPETITORS ==
    <<
       <<"t", "e", "c", "h", "c", "o", "r", "p">>,
       <<"i", "n", "n", "o", "v", "a", "t", "e", "l", "a", "b", "s">>,
       <<"d", "a", "t", "a", "d", "y", "n", "a", "m", "i", "c">>,
       <<"c", "l", "o", "u", "d", "f", "i", "r", "s", "t">>,
       <<"a", "i", "f", "o", "r", "w", "a", "r", "d">>,
       <<"s", "m", "a", "r", "t", "s", "o", "l", "u", "t", "i", "o", "n", "s">>,
       <<"n", "e", "x", "t", "g", "e", "n", "t", "e", "c", "h">>,
       <<"f", "u", "t", "u", "r", "e", "s", "y", "s", "t", "e", "m", "s">>,
       <<"d", "i", "g", "i", "t", "a", "l", "e", "d", "g", "e">>,
       <<"p", "r", "o", "a", "c", "t", "i", "v", "e">>
    >>

\* lines 13-16
competitor_list_or_default(competitors) ==
    IF competitors = None THEN DEFAULT_COMPETITORS ELSE competitors

\* analyze_query_intent raises AttributeError at the first entry that is no string
analyze_raises(competitors) ==
    \E i \in DOMAIN competitor_list_or_default(competitors) :
        ~IsString(competitor_list_or_default(competitors)[i])

TXT_ATTRIBUTE_ERROR == <<"'float' object has no attribute 'lower'">>

analyze_query_intent(q, competitors) ==
    LET query_lower == lower(q)
        names == competitor_list_or_default(competitors)
        mentioned == competitors_mentioned(names, Len(names), query_lower)
        comparison == any_keyword(comparison_keywords, query_lower)
        aspects == aspects_requested(query_lower)
    IN  [ query_type |-> IF comparison THEN "comparison" ELSE "general",
          competitors_mentioned |-> mentioned,
          aspects_requested |-> aspects,
          comparison_requested |-> comparison,
          action_keywords |-> found_action_keywords(query_lower),
          query_complexity |-> query_complexity(Len(mentioned), Len(aspects), comparison) ]

\* plan_sub_goals taking one named competitor as enough to compare
plan_sub_goals_one_competitor(i) ==
    ( IF i.comparison_requested THEN
          IF Len(i.competitors_mentioned) >= 1
          THEN << "retrieve_specific_competitors", "analyze_competitor_data",
                  "perform_comparison", "generate_insights" >>
          ELSE << "retrieve_relevant_data", "identify_comparison_candidates",
                  "perform_comparison" >>
      ELSE IF i.competitors_mentioned # <<>> THEN
          <<"retrieve_specific_competitors">> \o
          ( IF i.aspects_requested # <<>>
            THEN <<"analyze_specific_aspects", "extract_relevant_information">>
            ELSE <<"provide_comprehensive_analysis">> )
      ELSE << "retrieve_relevant_data", "analyze_market_landscape",
              "provide_general_insights" >> )
    \o ( IF i.query_complexity = "complex"
         THEN <<"synthesize_complex_analysis">> ELSE <<>> )

\* plan_sub_goals adding the synthesis tag in the comparison branch only
plan_sub_goals_tag_in_comparison(i) ==
    IF i.comparison_requested THEN
        ( IF Len(i.competitors_mentioned) >= 2
          THEN << "retrieve_specific_competitors", "analyze_competitor_data",
                  "perform_comparison", "generate_insights" >>
          ELSE << "retrieve_relevant_data", "identify_comparison_candidates",
                  "perform_comparison" >> )
        \o ( IF i.query_complexity = "complex"
             THEN <<"synthesize_complex_analysis">> ELSE <<>> )
    ELSE IF i.competitors_mentioned # <<>> THEN
        <<"retrieve_specific_competitors">> \o
        ( IF i.aspects_requested # <<>>
          THEN <<"analyze_specific_aspects", "extract_relevant_information">>
          ELSE <<"provide_comprehensive_analysis">> )
    ELSE << "retrieve_relevant_data", "analyze_market_landscape",
            "provide_general_insights" >>

plan_sub_goals(i) ==
    ( IF i.comparison_requested THEN
          IF Len(i.competitors_mentioned) >= 2
          THEN << "retrieve_specific_competitors", "analyze_competitor_data",
                  "perform_comparison", "generate_insights" >>
          ELSE << "retrieve_relevant_data", "identify_comparison_candidates",
                  "perform_comparison" >>
      ELSE IF i.competitors_mentioned # <<>> THEN
          <<"retrieve_specific_competitors">> \o
          ( IF i.aspects_requested # <<>>
            THEN <<"analyze_specific_aspects", "extract_relevant_information">>
            ELSE <<"provide_comprehensive_analysis">> )
      ELSE << "retrieve_relevant_data", "analyze_market_landscape",
              "provide_general_insights" >> )
    \o ( IF i.query_complexity = "complex"
         THEN <<"synthesize_complex_analysis">> ELSE <<>> )

----------------------------------------------------------------------------
(* The call layer as a state machine: one action per pass of a retry loop *)

Pending == [kind |-> "pending", value |-> <<>>, err |-> NoError]
Idle == [kind |-> "idle", value |-> <<>>, err |-> NoError]

Running(f) == fn = f /\ result.kind = "pending"
Finished(f) == fn = f /\ result.kind \in {"return", "return_none", "raise"}

\* entry of a call-layer function f(q, max_retries = m) called by c
Enter(f, c, q, m) ==
    /\ fn' = f
    /\ caller' = c
    /\ query' = q
    /\ attempt' = 0
    /\ max_retries' = m
    /\ calls' = 0
    /\ waits' = <<>>
    /\ signals' = <<>>
    /\ result' = Pending

\* the caller drops what the call-layer function handed back
Leave ==
    /\ fn' = "none" /\ caller' = "none" /\ query' = <<>> /\ attempt' = 0
    /\ max_retries' = 0 /\ calls' = 0 /\ waits' = <<>> /\ signals' = <<>>
    /\ result' = Idle

\* the effect of one pass with outcome o, the provider having behaved as b
Pass(o, b) ==
    /\ attempt' = attempt + 1
    /\ calls' = IF o.called THEN calls + 1 ELSE calls
    /\ signals' = IF o.called THEN Append(signals, SignalOf(b)) ELSE signals
    /\ waits' = IF o.next = "continue" THEN Append(waits, o.wait) ELSE waits
    /\ result' = IF o.next = "continue" THEN Pending
                 ELSE [kind |-> o.next, value |-> o.value, err |-> o.err]
    /\ UNCHANGED <<fn, caller, query, max_retries>>

\* range(max_retries) is exhausted: the function falls off its end
FallOffEnd ==
    /\ result' = [kind |-> "return_none", value |-> <<>>, err |-> NoError]
    /\ UNCHANGED <<fn, caller, query, attempt, max_retries, calls, waits, signals>>

safe_query_engine_call ==
    /\ Running("safe_query_engine_call")
    /\ IF attempt >= max_retries THEN FallOffEnd
       ELSE \E b \in QueryBehaviours :
                Pass(safe_query_pass(query, attempt, max_retries, b), b)
    /\ UNCHANGED <<agent_vars, hm_query_history, embed_mode, api_key_configured, aux_vars,
                   now, react_vars, obs_vars>>

configure_embedding(f, direction) ==
    /\ Running(f)
    /\ IF attempt >= max_retries
       THEN FallOffEnd /\ UNCHANGED embed_mode
       ELSE \E b \in ConfigBehaviours :
                LET o == configure_pass(direction, api_key_configured, attempt,
                                        max_retries, b)
                IN  /\ Pass(o, b)
                    /\ embed_mode' = IF o.next = "return_none" THEN direction
                                     ELSE embed_mode
    /\ UNCHANGED <<agent_vars, hm_query_history, api_key_configured, aux_vars, now,
                   react_vars, obs_vars>>

configure_embedding_for_search ==
    configure_embedding("configure_embedding_for_search", "search_query")

configure_embedding_for_indexing ==
    configure_embedding("configure_embedding_for_indexing", "search_document")

----------------------------------------------------------------------------
(* Direct calls of the call layer *)

CallQueries ==
    { <<>>, <<" ">>, <<"h", "i">>, <<" ", "h", "i", " ">>, <<"a", "b", "c">>,
      <<" ", "a", "b", "c">> }

\* max_retries of a direct call: negative, zero and positive budgets
Budgets == (0 - 1) .. MaxBudget

CanInvoke == pc = "idle" /\ result.kind # "pending"

UnchangedByInvoke ==
    UNCHANGED <<agent_vars, hm_query_history, embed_mode, api_key_configured, aux_vars,
                now, react_vars, obs_vars>>

invoke_safe_query_engine_call ==
    /\ CanInvoke
    /\ \E q \in CallQueries, m \in Budgets :
           Enter("safe_query_engine_call", "direct", q, m)
    /\ UnchangedByInvoke

invoke_configure_embedding_for_search ==
    /\ CanInvoke
    /\ \E m \in Budgets : Enter("configure_embedding_for_search", "direct", <<>>, m)
    /\ UnchangedByInvoke

invoke_configure_embedding_for_indexing ==
    /\ CanInvoke
    /\ \E m \in Budgets : Enter("configure_embedding_for_indexing", "direct", <<>>, m)
    /\ UnchangedByInvoke

----------------------------------------------------------------------------
(* Initial states *)

DefaultHistorySize == 10

SIMILARITY_TOP_K == 5
REACT_QUERY_RETRIES == 3
CONFIGURE_RETRIES == 2
MAX_SIMILARITY == 8
SIMILARITY_BOOST == 3

NoIntent ==
    [query_type |-> "general", competitors_mentioned |-> <<>>,
     aspects_requested |-> <<>>, comparison_requested |-> FALSE,
     action_keywords |-> <<>>, query_complexity |-> "simple"]

NoStats == [called |-> FALSE]

\* get_recent_history not called since the ledger last changed
NoRecent == [called |-> FALSE]

\* handle_user_input not called yet
NoInput == [called |-> FALSE]

\* initialize not called yet
NoInitResult == [called |-> FALSE]

\* no create_vector_index call made yet
NoIndexCall ==
    [pc |-> "idle", m |-> 0, attempt |-> 0, inner |-> 0, inits |-> 0,
     n_waits |-> 0, last_wait |-> [loop |-> "none", k |-> 0, ms |-> 0, sig |-> "none"],
     first_signal |-> "none", result |-> "none"]

\* outcome of reason_and_act: nothing yet, in progress, returned value, or
\* raised err; mode is the embedding mode at the moment it ended; by is the
\* caller, process_query or a direct caller
NoReact ==
    [kind |-> "idle", value |-> <<>>, err |-> NoError, mode |-> "unset", by |-> "none"]
React(k, v, e, m, c) == [kind |-> k, value |-> v, err |-> e, mode |-> m, by |-> c]

\* CompetitiveAnalysisAgent.__init__(max_history_size = n)
AgentInit(n) ==
    /\ max_history_size = n
    /\ query_history = <<>>
    /\ vector_index = "None"
    /\ competitor_list = <<>>
    /\ is_initialized = FALSE
    /\ initialization_error = None

\* the module-level state and the call in progress: none
ProcessState ==
    /\ hm_query_history = <<>>
    /\ embed_mode = "unset"
    /\ api_key_configured \in BOOLEAN
    /\ now = 0
    /\ fn = "none" /\ caller = "none" /\ query = <<>> /\ attempt = 0
    /\ max_retries = 0 /\ calls = 0 /\ waits = <<>> /\ signals = <<>>
    /\ result = Idle
    /\ pc = "idle" /\ similarity_k = 0 /\ response = <<>>
    /\ react_result = NoReact /\ mode_switched = FALSE
    /\ reconfigured = "not_called" /\ last_query = <<>> /\ returned = None
    /\ appended = <<>> /\ hm_appended = <<>> /\ stats = NoStats
    /\ n_queries = 0 /\ n_inits = 0
    /\ sub_goals = <<>>
    /\ recent = NoRecent /\ index_call = NoIndexCall
    /\ init_result = NoInitResult /\ cli_handled = NoInput

\* no query and no competitor list handed to the analysis yet
NothingToAnalyze ==
    /\ pq = <<>> /\ intent = NoIntent
    /\ competitors_arg = <<>> /\ analyzed = "no"

\* config.SIMILARITY_TOP_K as the repository sets it
DefaultConfig == similarity_top_k = SIMILARITY_TOP_K

ProcessInit == ProcessState /\ NothingToAnalyze /\ DefaultConfig

InitCall == AgentInit(DefaultHistorySize) /\ ProcessInit

NextCall ==
    \/ invoke_safe_query_engine_call
    \/ invoke_configure_embedding_for_search
    \/ invoke_configure_embedding_for_indexing
    \/ safe_query_engine_call
    \/ configure_embedding_for_search
    \/ configure_embedding_for_indexing

SpecCall == InitCall /\ [][NextCall]_vars

----------------------------------------------------------------------------
(* The agent: competitive_agent.py, and reason_and_act: react_agent.py *)

TECHCORP == <<"T", "e", "c", "h", "C", "o", "r", "p">>

\* df['Competitor Name'].tolist() of the CSV files the agent may find
CompetitorLists == { <<TECHCORP>>, <<TECHCORP, NotAString>>, <<NotAString>> }

\* load_csv_data(): None, or a frame with or without its columns
NoFrame == [loaded |-> FALSE, has_name |-> FALSE, has_others |-> FALSE, names |-> <<>>]
DataFrames ==
    {NoFrame}
    \cup { [loaded |-> TRUE, has_name |-> FALSE, has_others |-> o, names |-> <<>>] :
             o \in BOOLEAN }
    \cup { [loaded |-> TRUE, has_name |-> TRUE, has_others |-> o, names |-> l] :
             o \in BOOLEAN, l \in CompetitorLists }

\* create_vector_index(documents): whether initialize_llm_settings got to set
\* Settings.embed_model, and the index or None
IndexOutcomes ==
    { [settings |-> FALSE, index |-> "None"], [settings |-> TRUE, index |-> "None"],
      [settings |-> TRUE, index |-> "index"] }

\* initialize_llm_settings raises before it sets anything when the API key
\* is not configured
IndexOutcomesWith(keyok) == { o \in IndexOutcomes : o.settings => keyok }

ERR_LOAD == <<"Failed to load competitor data from CSV">>
ERR_COLUMN == <<"Required column 'Competitor Name' not found in CSV: ", "'Competitor Name'">>
ERR_NO_DOCUMENTS == <<"No valid documents could be prepared from the data">>
ERR_INDEX == <<"Failed to create vector index">>
ERR_UNEXPECTED_INIT == <<"Unexpected error during initialization: ">>
TXT_CSV_COLUMNS == <<"CSV file does not have required columns">>

\* prepare_documents keeps the rows whose name is not missing
prepare_documents(names) == SelectSeq(names, IsString)

\* the tuple (success, error_message) initialize returns
Returned(ok, msg) == [called |-> TRUE, ok |-> ok, msg |-> msg]

\* initialize setting is_initialized before it looks at the index
initialize_flag_before_index ==
    /\ pc = "idle"
    /\ n_inits < MaxInits
    /\ n_inits' = n_inits + 1
    /\ \E df \in DataFrames, cvi \in IndexOutcomesWith(api_key_configured) :
        IF ~df.loaded THEN
            /\ initialization_error' = ERR_LOAD
            /\ init_result' = Returned(FALSE, ERR_LOAD)
            /\ UNCHANGED <<competitor_list, vector_index, is_initialized, embed_mode>>
        ELSE IF ~df.has_name THEN
            /\ initialization_error' = ERR_COLUMN
            /\ init_result' = Returned(FALSE, ERR_COLUMN)
            /\ UNCHANGED <<competitor_list, vector_index, is_initialized, embed_mode>>
        ELSE IF ~df.has_others THEN
            /\ competitor_list' = df.names
            /\ initialization_error' = ERR_UNEXPECTED_INIT \o TXT_CSV_COLUMNS
            /\ init_result' = Returned(FALSE, ERR_UNEXPECTED_INIT \o TXT_CSV_COLUMNS)
            /\ UNCHANGED <<vector_index, is_initialized, embed_mode>>
        ELSE IF prepare_documents(df.names) = <<>> THEN
            /\ competitor_list' = df.names
            /\ initialization_error' = ERR_NO_DOCUMENTS
            /\ init_result' = Returned(FALSE, ERR_NO_DOCUMENTS)
            /\ UNCHANGED <<vector_index, is_initialized, embed_mode>>
        ELSE
            /\ competitor_list' = df.names
            /\ vector_index' = cvi.index
            /\ embed_mode' = IF cvi.settings THEN "search_document" ELSE embed_mode
            /\ IF cvi.index = "None"
               THEN /\ initialization_error' = ERR_INDEX
                    /\ init_result' = Returned(FALSE, ERR_INDEX)
                    /\ is_initialized' = TRUE
               ELSE /\ is_initialized' = TRUE
                    /\ init_result' = Returned(TRUE, None)
                    /\ UNCHANGED initialization_error
    /\ UNCHANGED <<max_history_size, query_history, hm_query_history,
                   api_key_configured, similarity_top_k, recent, index_call, cli_handled, now, call_vars, react_vars, react_result,
                   mode_switched, reconfigured, last_query, returned, appended,
                   hm_appended, stats, n_queries, competitors_arg, analyzed,
                   sub_goals>>

initialize ==
    /\ pc = "idle"
    /\ n_inits < MaxInits
    /\ n_inits' = n_inits + 1
    /\ \E df \in DataFrames, cvi \in IndexOutcomesWith(api_key_configured) :
        IF ~df.loaded THEN
            /\ initialization_error' = ERR_LOAD
            /\ init_result' = Returned(FALSE, ERR_LOAD)
            /\ UNCHANGED <<competitor_list, vector_index, is_initialized, embed_mode>>
        ELSE IF ~df.has_name THEN
            /\ initialization_error' = ERR_COLUMN
            /\ init_result' = Returned(FALSE, ERR_COLUMN)
            /\ UNCHANGED <<competitor_list, vector_index, is_initialized, embed_mode>>
        ELSE IF ~df.has_others THEN
            /\ competitor_list' = df.names
            /\ initialization_error' = ERR_UNEXPECTED_INIT \o TXT_CSV_COLUMNS
            /\ init_result' = Returned(FALSE, ERR_UNEXPECTED_INIT \o TXT_CSV_COLUMNS)
            /\ UNCHANGED <<vector_index, is_initialized, embed_mode>>
        ELSE IF prepare_documents(df.names) = <<>> THEN
            /\ competitor_list' = df.names
            /\ initialization_error' = ERR_NO_DOCUMENTS
            /\ init_result' = Returned(FALSE, ERR_NO_DOCUMENTS)
            /\ UNCHANGED <<vector_index, is_initialized, embed_mode>>
        ELSE
            /\ competitor_list' = df.names
            /\ vector_index' = cvi.index
            /\ embed_mode' = IF cvi.settings THEN "search_document" ELSE embed_mode
            /\ IF cvi.index = "None"
               THEN /\ initialization_error' = ERR_INDEX
                    /\ init_result' = Returned(FALSE, ERR_INDEX)
                    /\ UNCHANGED is_initialized
               ELSE /\ is_initialized' = TRUE
                    /\ init_result' = Returned(TRUE, None)
                    /\ UNCHANGED initialization_error
    /\ UNCHANGED <<max_history_size, query_history, hm_query_history,
                   api_key_configured, similarity_top_k, recent, index_call, cli_handled, now, call_vars, react_vars, react_result,
                   mode_switched, reconfigured, last_query, returned, appended,
                   hm_appended, stats, n_queries, competitors_arg, analyzed,
                   sub_goals>>

\* CompetitiveAnalysisAgent.get_status
get_status ==
    [initialized |-> is_initialized,
     initialization_error |-> initialization_error,
     competitor_count |-> Len(competitor_list),
     history_size |-> Len(query_history),
     max_history_size |-> max_history_size,
     has_vector_index |-> vector_index # "None"]

QueryHistoryEntry(ts, q, r, t) ==
    [timestamp |-> ts, query |-> q, response |-> r, processing_time |-> t]

\* add_entry dropping the newest entry instead of the oldest
add_entry_pops_newest(history, entry, capacity) ==
    IF Len(history) + 1 > capacity THEN history
    ELSE Append(history, entry)

\* list.append(entry), then list.pop(0) when longer than the capacity
add_entry(history, entry, capacity) ==
    IF Len(history) + 1 > capacity THEN Tail(Append(history, entry))
    ELSE Append(history, entry)

\* CompetitiveAnalysisAgent._add_to_history at time ts
_add_to_history(q, r, t, ts) ==
    /\ query_history' = add_entry(query_history, QueryHistoryEntry(ts, q, r, t),
                                  max_history_size)
    /\ appended' = Append(appended, QueryHistoryEntry(ts, q, r, t))

MSG_NOT_INITIALIZED == <<"[ERROR] Agent is not initialized. Please initialize the agent first.">>
MSG_INVALID_QUERY == <<"[ERROR] Please provide a valid query.">>
MSG_PROCESSING_ERROR == <<"[ERROR] Error processing query: ">>
MSG_REACT_ERROR == <<"I encountered an error while processing your query: ">>
MSG_CONFIGURATION == <<"Configuration Error: ">>
MSG_CHECK_KEY == <<"\n\nPlease check your API key and configuration settings.">>
MSG_REACT_RATE_LIMIT == <<"I'm currently experiencing rate limits with the API. Please try again in a few minutes.">>
MSG_REACT_CONNECTIVITY == <<"I'm having trouble connecting to the service. Please check your internet connection and try again.">>
MSG_TECHNICAL == <<"I encountered a technical issue while processing your query: ">>
MSG_TRY_AGAIN == <<"\n\nPlease try again or rephrase your question.">>
MSG_REACT_UNEXPECTED == <<"I encountered an unexpected error while processing your query. Please try again or contact support if the issue persists.">>
FOOTER_RULE == <<"\n\n---\n">>

\* the except clauses of execute_retrieval_and_analysis
execute_except(e) ==
    IF e.cls = "ValueError" THEN MSG_CONFIGURATION \o e.text \o MSG_CHECK_KEY
    ELSE IF e.cls = "RuntimeError" THEN
        IF Has(e.text, "rate limit") THEN MSG_REACT_RATE_LIMIT
        ELSE IF Has(e.text, "network") \/ Has(e.text, "connection")
        THEN MSG_REACT_CONNECTIVITY
        ELSE MSG_TECHNICAL \o e.text \o MSG_TRY_AGAIN
    ELSE MSG_REACT_UNEXPECTED

metadata_parts(i) ==
    ( IF i.competitors_mentioned # <<>>
      THEN << <<"Companies: ">> \o join(<<", ">>, i.competitors_mentioned) >>
      ELSE <<>> )
    \o
    ( IF i.aspects_requested # <<>>
      THEN << <<"Focus: ">> \o
              join(<<", ">>, [k \in DOMAIN i.aspects_requested |->
                                  <<i.aspects_requested[k]>>]) >>
      ELSE <<>> )

enhance_response_based_on_intent(base_response, i) ==
    IF metadata_parts(i) # <<>>
    THEN strip(base_response) \o FOOTER_RULE \o join(<<" | ">>, metadata_parts(i))
    ELSE strip(base_response)

\* similarity_k of execute_retrieval_and_analysis
retrieval_depth(i, top_k) ==
    IF i.query_complexity = "complex"
    THEN IF MAX_SIMILARITY < top_k + SIMILARITY_BOOST
         THEN MAX_SIMILARITY ELSE top_k + SIMILARITY_BOOST
    ELSE top_k

\* create_optimized_query_engine: built, or built by the fallback
\* index.as_query_engine after a failure, or the fallback raises too
EngineErrors ==
    { Exc(c, t) : c \in {"ValueError", "RuntimeError", "Exception"},
                  t \in { <<>>, <<"rate limit">>, <<"connection">> } }
EngineBehaviours ==
    { [kind |-> "built", err |-> NoError], [kind |-> "fallback", err |-> NoError] }
    \cup { [kind |-> "raise", err |-> e] : e \in EngineErrors }

\* str(response) of what safe_query_engine_call handed back
str_result(r) == IF r.kind = "return" THEN r.value ELSE None

\* queries typed by the user
AgentQueries ==
    { <<>>, <<" ">>, <<"h", "i">>, <<" ", "h", "o", "w", " ">>,
      <<"T", "e", "c", "h", "C", "o", "r", "p", " ", "v", "s">> }

\* Complete recording the raw answer where the caller gets the final string
Complete_records_other(r, m) ==
    /\ IF react_result.by = "process_query" THEN
           /\ \E elapsed \in 0 .. MaxElapsed :
                  /\ now' = now + elapsed
                  /\ _add_to_history(pq, MSG_REACT_UNEXPECTED \o r, elapsed, now')
           /\ returned' = r
       ELSE UNCHANGED <<now, query_history, appended, returned>>
    /\ react_result' = React("return", r, NoError, m, react_result.by)
    /\ pc' = "idle"
    /\ Leave
    /\ pq' = <<>> /\ intent' = NoIntent /\ response' = <<>>

\* reason_and_act returns r with the embedding mode m; process_query, when it
\* is the caller, records the query and returns the same string
Complete(r, m) ==
    /\ IF react_result.by = "process_query" THEN
           /\ \E elapsed \in 0 .. MaxElapsed :
                  /\ now' = now + elapsed
                  /\ _add_to_history(pq, r, elapsed, now')
           /\ returned' = r
       ELSE UNCHANGED <<now, query_history, appended, returned>>
    /\ react_result' = React("return", r, NoError, m, react_result.by)
    /\ pc' = "idle"
    /\ Leave
    /\ pq' = <<>> /\ intent' = NoIntent /\ response' = <<>>

\* process_query entering the refusal of a blank query in the ledger
process_query_records_refusal ==
    /\ pc = "idle"
    /\ \E q \in AgentQueries :
        /\ last_query' = q
        /\ IF ~is_initialized THEN
               /\ returned' = MSG_NOT_INITIALIZED
               /\ UNCHANGED <<query_history, now, call_vars, react_vars, react_result,
                              mode_switched, reconfigured, appended, n_queries>>
           ELSE IF strip(q) = <<>> THEN
               /\ returned' = MSG_INVALID_QUERY
               /\ _add_to_history(strip(q), MSG_INVALID_QUERY, 0, now)
               /\ UNCHANGED <<now, call_vars, react_vars, react_result,
                              mode_switched, reconfigured, n_queries>>
           ELSE
               /\ n_queries < MaxQueries
               /\ n_queries' = n_queries + 1
               /\ mode_switched' = FALSE
               /\ reconfigured' = "not_called"
               /\ IF analyze_raises(competitor_list) THEN
                      \* reason_and_act raises; the except clause of process_query
                      /\ react_result' =
                             React("raise", <<>>, Exc("AttributeError", TXT_ATTRIBUTE_ERROR),
                                   embed_mode, "process_query")
                      /\ \E elapsed \in 0 .. MaxElapsed :
                             /\ now' = now + elapsed
                             /\ _add_to_history(strip(q),
                                                MSG_PROCESSING_ERROR \o TXT_ATTRIBUTE_ERROR,
                                                elapsed, now')
                      /\ returned' = MSG_PROCESSING_ERROR \o TXT_ATTRIBUTE_ERROR
                      /\ UNCHANGED <<call_vars, react_vars>>
                  ELSE
                      /\ pq' = strip(q)
                      /\ intent' = analyze_query_intent(strip(q), competitor_list)
                      /\ react_result' = React("pending", <<>>, NoError, embed_mode,
                                                "process_query")
                      /\ Enter("configure_embedding_for_search", "react", <<>>,
                               CONFIGURE_RETRIES)
                      /\ pc' = "configure_search"
                      /\ UNCHANGED <<query_history, now, similarity_k, response,
                                     returned, appended>>
    /\ UNCHANGED <<max_history_size, vector_index, competitor_list, is_initialized,
                   initialization_error, hm_query_history, embed_mode,
                   api_key_configured, aux_vars, hm_appended, stats, n_inits,
                   competitors_arg, analyzed, sub_goals>>

\* process_query(q) up to the call of reason_and_act: its guards, and the
\* except clause when reason_and_act raises at once
process_query_call(q) ==
    /\ last_query' = q
    /\ IF ~is_initialized THEN
           /\ returned' = MSG_NOT_INITIALIZED
           /\ UNCHANGED <<query_history, now, call_vars, react_vars, react_result,
                          mode_switched, reconfigured, appended, n_queries>>
       ELSE IF strip(q) = <<>> THEN
           /\ returned' = MSG_INVALID_QUERY
           /\ UNCHANGED <<query_history, now, call_vars, react_vars, react_result,
                          mode_switched, reconfigured, appended, n_queries>>
       ELSE
           /\ n_queries < MaxQueries
           /\ n_queries' = n_queries + 1
           /\ mode_switched' = FALSE
           /\ reconfigured' = "not_called"
           /\ IF analyze_raises(competitor_list) THEN
                  \* reason_and_act raises; the except clause of process_query
                  /\ react_result' =
                         React("raise", <<>>, Exc("AttributeError", TXT_ATTRIBUTE_ERROR),
                               embed_mode, "process_query")
                  /\ \E elapsed \in 0 .. MaxElapsed :
                         /\ now' = now + elapsed
                         /\ _add_to_history(strip(q),
                                            MSG_PROCESSING_ERROR \o TXT_ATTRIBUTE_ERROR,
                                            elapsed, now')
                  /\ returned' = MSG_PROCESSING_ERROR \o TXT_ATTRIBUTE_ERROR
                  /\ UNCHANGED <<call_vars, react_vars>>
              ELSE
                  /\ pq' = strip(q)
                  /\ intent' = analyze_query_intent(strip(q), competitor_list)
                  /\ react_result' = React("pending", <<>>, NoError, embed_mode,
                                            "process_query")
                  /\ Enter("configure_embedding_for_search", "react", <<>>,
                           CONFIGURE_RETRIES)
                  /\ pc' = "configure_search"
                  /\ UNCHANGED <<query_history, now, similarity_k, response,
                                 returned, appended>>

\* CompetitiveAnalysisAgent.process_query
process_query ==
    /\ pc = "idle"
    /\ \E q \in AgentQueries : process_query_call(q)
    /\ UNCHANGED <<max_history_size, vector_index, competitor_list, is_initialized,
                   initialization_error, hm_query_history, embed_mode,
                   api_key_configured, aux_vars, hm_appended, stats, n_inits,
                   competitors_arg, analyzed, sub_goals>>

\* execute_retrieval_and_analysis after configure_embedding_for_search
after_configure_search ==
    /\ pc = "configure_search"
    /\ Finished("configure_embedding_for_search")
    /\ IF result.kind = "raise" THEN
           /\ Complete(execute_except(result.err), embed_mode)
           /\ UNCHANGED <<mode_switched, similarity_k>>
       ELSE
           /\ mode_switched' = TRUE
           /\ similarity_k' = retrieval_depth(intent, similarity_top_k)
           /\ \E eb \in EngineBehaviours :
                  IF eb.kind = "raise" THEN
                      /\ Complete(execute_except(eb.err), embed_mode)
                  ELSE
                      /\ Enter("safe_query_engine_call", "react", pq,
                               REACT_QUERY_RETRIES)
                      /\ pc' = "query"
                      /\ UNCHANGED <<query_history, now, react_result, returned,
                                     appended, pq, intent, response>>
    /\ UNCHANGED <<max_history_size, vector_index, competitor_list, is_initialized,
                   initialization_error, hm_query_history, embed_mode,
                   api_key_configured, aux_vars, reconfigured, last_query, hm_appended, stats,
                   n_queries, n_inits,
                   competitors_arg, analyzed, sub_goals>>

\* execute_retrieval_and_analysis after safe_query_engine_call
after_query ==
    /\ pc = "query"
    /\ Finished("safe_query_engine_call")
    /\ response' = str_result(result)
    /\ Enter("configure_embedding_for_indexing", "react", <<>>, CONFIGURE_RETRIES)
    /\ pc' = "configure_indexing"
    /\ UNCHANGED <<agent_vars, hm_query_history, embed_mode, api_key_configured, aux_vars,
                   now, pq, intent, similarity_k, obs_vars>>

\* after_configure_indexing letting a failed reconfiguration replace the answer
after_configure_indexing_surfaces_failure ==
    /\ pc = "configure_indexing"
    /\ Finished("configure_embedding_for_indexing")
    /\ reconfigured' = IF result.kind = "raise" THEN "failed" ELSE "ok"
    /\ Complete(IF result.kind = "raise" THEN execute_except(result.err)
                ELSE enhance_response_based_on_intent(response, intent), embed_mode)
    /\ UNCHANGED <<max_history_size, vector_index, competitor_list, is_initialized,
                   initialization_error, hm_query_history, embed_mode,
                   api_key_configured, aux_vars, similarity_k, mode_switched, last_query,
                   hm_appended, stats, n_queries, n_inits,
                   competitors_arg, analyzed, sub_goals>>

\* execute_retrieval_and_analysis after configure_embedding_for_indexing
after_configure_indexing ==
    /\ pc = "configure_indexing"
    /\ Finished("configure_embedding_for_indexing")
    /\ reconfigured' = IF result.kind = "raise" THEN "failed" ELSE "ok"
    /\ Complete(enhance_response_based_on_intent(response, intent), embed_mode)
    /\ UNCHANGED <<max_history_size, vector_index, competitor_list, is_initialized,
                   initialization_error, hm_query_history, embed_mode,
                   api_key_configured, aux_vars, similarity_k, mode_switched, last_query,
                   hm_appended, stats, n_queries, n_inits,
                   competitors_arg, analyzed, sub_goals>>

clear_history ==
    /\ pc = "idle"
    /\ query_history' = <<>>
    /\ appended' = <<>>
    /\ stats' = NoStats
    /\ recent' = NoRecent
    /\ UNCHANGED <<max_history_size, vector_index, competitor_list, is_initialized,
                   initialization_error, hm_query_history, embed_mode,
                   api_key_configured, similarity_top_k, index_call, init_result, cli_handled, now, call_vars, react_vars, react_result,
                   mode_switched, reconfigured, last_query, returned, hm_appended,
                   n_queries, n_inits,
                   competitors_arg, analyzed, sub_goals>>

Init ==
    /\ AgentInit(DefaultHistorySize)
    /\ ProcessInit

Next ==
    \/ initialize
    \/ process_query
    \/ configure_embedding_for_search
    \/ after_configure_search
    \/ safe_query_engine_call
    \/ after_query
    \/ configure_embedding_for_indexing
    \/ after_configure_indexing
    \/ clear_history

Spec == Init /\ [][Next]_vars

----------------------------------------------------------------------------
(* Direct calls of reason_and_act *)

MaxReactCalls == 1  \* direct calls of reason_and_act, per run

\* queries of a direct call: those a user types, and one that asks for an aspect
ReactQueries == AgentQueries \cup { <<"s", "a", "l", "e", "s">> }

\* reason_and_act(q, index, l), called with an index by something other than
\* process_query
call_reason_and_act ==
    /\ pc = "idle"
    /\ n_queries < MaxReactCalls
    /\ n_queries' = n_queries + 1
    /\ mode_switched' = FALSE
    /\ reconfigured' = "not_called"
    /\ \E q \in ReactQueries, l \in CompetitorLists :
           /\ last_query' = q
           /\ competitors_arg' = l
           /\ IF analyze_raises(l) THEN
                  /\ react_result' =
                         React("raise", <<>>, Exc("AttributeError", TXT_ATTRIBUTE_ERROR),
                               embed_mode, "direct")
                  /\ UNCHANGED <<call_vars, react_vars>>
              ELSE
                  /\ pq' = q
                  /\ intent' = analyze_query_intent(q, l)
                  /\ react_result' = React("pending", <<>>, NoError, embed_mode, "direct")
                  /\ Enter("configure_embedding_for_search", "react", <<>>,
                           CONFIGURE_RETRIES)
                  /\ pc' = "configure_search"
                  /\ UNCHANGED <<similarity_k, response>>
    /\ UNCHANGED <<agent_vars, hm_query_history, embed_mode, api_key_configured, aux_vars,
                   now, returned, appended, hm_appended, stats, n_inits, analyzed,
                   sub_goals>>

InitReact == AgentInit(DefaultHistorySize) /\ ProcessInit

NextReact ==
    \/ call_reason_and_act
    \/ configure_embedding_for_search
    \/ after_configure_search
    \/ safe_query_engine_call
    \/ after_query
    \/ configure_embedding_for_indexing
    \/ after_configure_indexing

SpecReact == InitReact /\ [][NextReact]_vars

\* reason_and_act under every configured base depth: config.SIMILARITY_TOP_K
\* set to 1 .. MaxTopK before the process starts
MaxTopK == 9

InitDepth ==
    /\ AgentInit(DefaultHistorySize)
    /\ ProcessState
    /\ NothingToAnalyze
    /\ similarity_top_k \in 1 .. MaxTopK

SpecDepth == InitDepth /\ [][NextReact]_vars

----------------------------------------------------------------------------
(* The history ledgers exercised directly *)

\* a fraction num / den
Ratio(n, d) == [num |-> n, den |-> d]

RECURSIVE sum(_)
sum(times) == IF times = <<>> THEN 0 ELSE Head(times) + sum(Tail(times))

min_of(times) == CHOOSE x \in {times[i] : i \in DOMAIN times} :
                     \A i \in DOMAIN times : x <= times[i]
max_of(times) == CHOOSE x \in {times[i] : i \in DOMAIN times} :
                     \A i \in DOMAIN times : x >= times[i]

\* get_history_stats with its guard on the empty ledger left out
history_stats_unguarded(history) ==
    LET processing_times == [i \in DOMAIN history |-> history[i].processing_time]
    IN  [ called |-> TRUE,
          keys |-> { "total_queries", "avg_processing_time", "oldest_query",
                     "newest_query", "fastest_query", "slowest_query" },
          total_queries |-> Len(history),
          avg_processing_time |-> Ratio(sum(processing_times), Len(processing_times)),
          divisors |-> {Len(processing_times)},
          oldest_query |-> IF history = <<>> THEN None ELSE history[1].timestamp,
          newest_query |-> IF history = <<>> THEN None
                           ELSE history[Len(history)].timestamp,
          fastest_query |-> IF history = <<>> THEN 0 ELSE min_of(processing_times),
          slowest_query |-> IF history = <<>> THEN 0 ELSE max_of(processing_times) ]

\* the dict get_history_stats returns: its keys, their values (a key that is
\* absent has the value 0), and the divisors of the divisions it performed
history_stats(history) ==
    IF history = <<>> THEN
        [ called |-> TRUE,
          keys |-> { "total_queries", "avg_processing_time", "oldest_query",
                     "newest_query" },
          total_queries |-> 0,
          avg_processing_time |-> Ratio(0, 1),
          divisors |-> {},
          oldest_query |-> None,
          newest_query |-> None,
          fastest_query |-> 0,
          slowest_query |-> 0 ]
    ELSE
        LET processing_times == [i \in DOMAIN history |-> history[i].processing_time]
        IN  [ called |-> TRUE,
              keys |-> { "total_queries", "avg_processing_time", "oldest_query",
                         "newest_query", "fastest_query", "slowest_query" },
              total_queries |-> Len(history),
              avg_processing_time |->
                  Ratio(sum(processing_times), Len(processing_times)),
              divisors |-> {Len(processing_times)},
              oldest_query |-> history[1].timestamp,
              newest_query |-> history[Len(history)].timestamp,
              fastest_query |-> min_of(processing_times),
              slowest_query |-> max_of(processing_times) ]

get_history_stats ==
    /\ pc = "idle"
    /\ stats' = history_stats(query_history)
    /\ UNCHANGED <<agent_vars, hm_query_history, embed_mode, api_key_configured, aux_vars,
                   now, call_vars, react_vars, react_result, mode_switched,
                   reconfigured, last_query, returned, appended, hm_appended,
                   n_queries, n_inits,
                   competitors_arg, analyzed, sub_goals>>

\* what the callers of the ledgers record
LedgerQueries == { <<"h", "o", "w">> }
LedgerResponses == { <<"o", "k">> }

\* one process runs either the agent (main.py) or the single-file program
\* that uses history_manager (competitive_analysis.py)
AgentLedgerUntouched == query_history = <<>> /\ appended = <<>> /\ n_queries = 0
ModuleLedgerUntouched == hm_query_history = <<>> /\ hm_appended = <<>>

\* a direct call of CompetitiveAnalysisAgent._add_to_history
call_add_to_history ==
    /\ pc = "idle"
    /\ ModuleLedgerUntouched
    /\ n_queries < MaxAppends
    /\ n_queries' = n_queries + 1
    /\ \E q \in LedgerQueries, r \in LedgerResponses, t \in 0 .. MaxElapsed :
           _add_to_history(q, r, t, now)
    /\ stats' = NoStats
    /\ recent' = NoRecent
    /\ UNCHANGED <<max_history_size, vector_index, competitor_list, is_initialized,
                   initialization_error, hm_query_history, embed_mode,
                   api_key_configured, similarity_top_k, index_call, init_result, cli_handled, now, call_vars, react_vars, react_result,
                   mode_switched, reconfigured, last_query, returned, hm_appended,
                   n_inits,
                   competitors_arg, analyzed, sub_goals>>

\* s[start:] of a Python list, start of either sign
slice_from(s, start) ==
    LET n == Len(s)
        i == IF start < 0
             THEN (IF start + n < 0 THEN 0 ELSE start + n)
             ELSE (IF start > n THEN n ELSE start)
    IN  SubSeq(s, i + 1, n)

\* self.query_history[-count:] if self.query_history else []
recent_history(history, count) ==
    IF history # <<>> THEN slice_from(history, 0 - count) ELSE <<>>

\* largest count asked of get_recent_history
MaxCount == 3

\* CompetitiveAnalysisAgent.get_recent_history(count)
get_recent_history ==
    /\ pc = "idle"
    /\ \E count \in 0 .. MaxCount :
           recent' = [called |-> TRUE, count |-> count,
                      entries |-> recent_history(query_history, count)]
    /\ UNCHANGED <<agent_vars, hm_query_history, embed_mode, api_key_configured,
                   similarity_top_k, index_call, init_result, cli_handled, now, call_vars,
                   react_vars,
                   obs_vars>>

\* a second passes
tick ==
    /\ now < MaxClock
    /\ now' = now + 1
    /\ UNCHANGED <<agent_vars, hm_query_history, embed_mode, api_key_configured, aux_vars,
                   call_vars, react_vars, obs_vars>>

MAX_HISTORY_SIZE == 5
RESPONSE_PREVIEW == 200

LONG_RESPONSE == [i \in 1 .. (RESPONSE_PREVIEW + 1) |-> "x"]
ModuleResponses == { <<"o", "k">>, LONG_RESPONSE }

\* response[:200] + "..." if len(response) > 200 else response
preview(r) ==
    IF Len(r) > RESPONSE_PREVIEW
    THEN SubSeq(r, 1, RESPONSE_PREVIEW) \o <<".", ".", ".">>
    ELSE r

\* history_manager.add_to_history
add_to_history ==
    /\ pc = "idle"
    /\ AgentLedgerUntouched
    /\ Len(hm_appended) < MaxModuleAppends
    /\ \E q \in LedgerQueries, r \in ModuleResponses :
           LET entry == [timestamp |-> now, query |-> q, response |-> preview(r)]
           IN  /\ hm_query_history' = add_entry(hm_query_history, entry, MAX_HISTORY_SIZE)
               /\ hm_appended' = Append(hm_appended, entry)
    /\ UNCHANGED <<agent_vars, embed_mode, api_key_configured, aux_vars, now, call_vars,
                   react_vars, react_result, mode_switched, reconfigured,
                   last_query, returned, appended, stats, n_queries, n_inits,
                   competitors_arg, analyzed, sub_goals>>

\* history_manager.clear_history
hm_clear_history ==
    /\ pc = "idle"
    /\ hm_query_history' = <<>>
    /\ hm_appended' = <<>>
    /\ UNCHANGED <<agent_vars, embed_mode, api_key_configured, aux_vars, now, call_vars,
                   react_vars, react_result, mode_switched, reconfigured,
                   last_query, returned, appended, stats, n_queries, n_inits,
                   competitors_arg, analyzed, sub_goals>>

InitLedger ==
    /\ \E n \in 1 .. MaxCapacity : AgentInit(n)
    /\ ProcessInit

NextLedger ==
    \/ call_add_to_history
    \/ clear_history
    \/ get_history_stats
    \/ get_recent_history
    \/ add_to_history
    \/ hm_clear_history
    \/ tick

SpecLedger == InitLedger /\ [][NextLedger]_vars

----------------------------------------------------------------------------
(* Direct calls of analyze_query_intent and plan_sub_goals *)

MaxWords == 3       \* words in a generated query

TECH_CORP == <<"T", "e", "c", "h", "C", "o", "r", "p">>
INNOVATE_LABS == <<"I", "n", "n", "o", "v", "a", "t", "e", "L", "a", "b", "s">>
INNOVATE_LABS_SPACED == <<"I", "n", "n", "o", "v", "a", "t", "e", " ", "L", "a", "b", "s">>
DATA_DYNAMIC_SPACED == <<"D", "a", "t", "a", " ", "D", "y", "n", "a", "m", "i", "c">>

\* the words queries are made of: names in several casings and variants,
\* keywords, and a word that matches nothing
QueryWords ==
    {
      <<"T", "e", "c", "h", "C", "o", "r", "p">>,
      <<"I", "N", "N", "O", "V", "A", "T", "E", "L", "A", "B", "S">>,
      <<"i", "n", "n", "o", "v", "a", "t", "e", "-", "l", "a", "b", "s">>,
      <<"D", "a", "t", "a">>,
      <<"D", "y", "n", "a", "m", "i", "c">>,
      <<"v", "s">>,
      <<"m", "a", "r", "k", "e", "t", "i", "n", "g">>,
      <<"r", "e", "v", "e", "n", "u", "e">>,
      <<"h", "e", "l", "l", "o">>
    }

SCENARIO_QUERY ==
    <<"C", "o", "m", "p", "a", "r", "e", " ", "T", "e", "c", "h", "C", "o", "r", "p", " ", "a", "n", "d", " ", "I", "n", "n", "o", "v", "a", "t", "e", "L", "a", "b", "s", " ", "m", "a", "r", "k", "e", "t", "i", "n", "g", " ", "s", "t", "r", "a", "t", "e", "g", "i", "e", "s">>

\* queries of 1 .. MaxWords words, and the scenario query
AnalyzeQueries ==
    { join(<<" ">>, ws) : ws \in UNION { [1 .. n -> QueryWords] : n \in 1 .. MaxWords } }
    \cup { SCENARIO_QUERY }

\* competitor lists: both orders, names with spaces, a repeated name, an
\* empty list, a list with a missing name, no list at all
AnalyzeLists ==
    { <<TECH_CORP, INNOVATE_LABS>>,
      <<INNOVATE_LABS, TECH_CORP>>,
      <<INNOVATE_LABS_SPACED, DATA_DYNAMIC_SPACED>>,
      <<DATA_DYNAMIC_SPACED, TECH_CORP, INNOVATE_LABS_SPACED>>,
      <<TECH_CORP, lower(TECH_CORP), TECH_CORP>>,
      <<>>,
      <<TECH_CORP, NotAString>>,
      None }

\* intent descriptors a caller of plan_sub_goals may pass
IntentDescriptors ==
    [ query_type : {"general", "comparison"},
      competitors_mentioned :
          { <<>>, <<formatted_name(TECH_CORP)>>,
            <<formatted_name(TECH_CORP), formatted_name(INNOVATE_LABS)>>,
            <<formatted_name(TECH_CORP), formatted_name(INNOVATE_LABS),
              formatted_name(DATA_DYNAMIC_SPACED)>> },
      aspects_requested : { <<>>, <<"marketing">>, <<"marketing", "financial">> },
      comparison_requested : BOOLEAN,
      action_keywords : { <<>> },
      query_complexity : {"simple", "moderate", "complex"} ]

\* a direct call analyze_query_intent(pq, competitors_arg)
call_analyze_query_intent ==
    /\ pc = "idle"
    /\ analyzed = "no"
    /\ IF analyze_raises(competitors_arg)
       THEN intent' = NoIntent /\ analyzed' = "raised"
       ELSE /\ intent' = analyze_query_intent(pq, competitors_arg)
            /\ analyzed' = "returned"
    /\ UNCHANGED <<agent_vars, hm_query_history, embed_mode, api_key_configured, aux_vars,
                   now, call_vars, pc, pq, similarity_k, response, react_result,
                   mode_switched, reconfigured, last_query, returned, appended,
                   hm_appended, stats, n_queries, n_inits, competitors_arg,
                   sub_goals>>

\* a direct call plan_sub_goals(intent), on what the analysis returned or on
\* the descriptor the caller made up; the call may be repeated
call_plan_sub_goals ==
    /\ pc = "idle"
    /\ analyzed \in {"returned", "given"}
    /\ sub_goals' = plan_sub_goals(intent)
    /\ UNCHANGED <<agent_vars, hm_query_history, embed_mode, api_key_configured, aux_vars,
                   now, call_vars, react_vars, react_result, mode_switched,
                   reconfigured, last_query, returned, appended, hm_appended,
                   stats, n_queries, n_inits, competitors_arg, analyzed>>

\* the arguments of the direct calls: a query and a competitor list for the
\* analysis, or an intent descriptor for the planning
InitAnalyze ==
    /\ AgentInit(DefaultHistorySize)
    /\ ProcessState
    /\ DefaultConfig
    /\ \/ /\ pq \in AnalyzeQueries
          /\ competitors_arg \in AnalyzeLists
          /\ intent = NoIntent
          /\ analyzed = "no"
       \/ /\ pq = <<>>
          /\ competitors_arg = <<>>
          /\ intent \in IntentDescriptors
          /\ analyzed = "given"

NextAnalyze ==
    \/ call_analyze_query_intent
    \/ call_plan_sub_goals

SpecAnalyze == InitAnalyze /\ [][NextAnalyze]_vars

----------------------------------------------------------------------------
(* The command line: cli_interface.py *)

CMD_EXIT == <<"e", "x", "i", "t">>
CMD_HELP == <<"h", "e", "l", "p">>
CMD_HISTORY == <<"h", "i", "s", "t", "o", "r", "y">>
CMD_CLEAR == <<"c", "l", "e", "a", "r">>
CMD_EXPORT == <<"e", "x", "p", "o", "r", "t">>
CMD_STATS == <<"s", "t", "a", "t", "s">>
CMD_STATUS == <<"s", "t", "a", "t", "u", "s">>

DIGITS == <<"0", "1", "2", "3", "4", "5", "6", "7", "8", "9">>

\* int(word) succeeds: a non-empty run of decimal digits
is_int(word) ==
    word # <<>> /\ \A i \in DOMAIN word : \E d \in DOMAIN DIGITS : DIGITS[d] = word[i]

\* int(word), for a word of decimal digits
RECURSIVE to_int(_)
to_int(word) ==
    IF word = <<>> THEN 0
    ELSE 10 * to_int(SubSeq(word, 1, Len(word) - 1))
         + (CHOOSE d \in DOMAIN DIGITS : DIGITS[d] = word[Len(word)]) - 1

HISTORY_DEFAULT_COUNT == 5
HISTORY_MAX_COUNT == 50

\* the count handle_special_commands passes to show_history
history_count(parts) ==
    IF Len(parts) > 1 /\ is_int(parts[2])
    THEN LET n == to_int(parts[2])
             capped == IF n < HISTORY_MAX_COUNT THEN n ELSE HISTORY_MAX_COUNT
         IN  IF capped < 1 THEN 1 ELSE capped
    ELSE HISTORY_DEFAULT_COUNT

\* parts[0] of user_input.lower().strip().split(), or the empty string
command_of(user_input) ==
    LET parts == split(strip(lower(user_input)))
    IN  IF parts # <<>> THEN parts[1] ELSE <<>>

\* the lines the user types, as input(...).strip() hands them on
CliLines ==
    { <<>>,
      <<"e", "x", "i", "t">>,
      <<"E", "x", "i", "t">>,
      <<"h", "e", "l", "p">>,
      <<"h", "e", "l", "p", " ", "m", "e">>,
      <<"h", "i", "s", "t", "o", "r", "y">>,
      <<"h", "i", "s", "t", "o", "r", "y", " ", "2">>,
      <<"h", "i", "s", "t", "o", "r", "y", " ", "0">>,
      <<"h", "i", "s", "t", "o", "r", "y", " ", "x">>,
      <<"c", "l", "e", "a", "r">>,
      <<"c", "l", "e", "a", "r", " ", "i", "t">>,
      <<"e", "x", "p", "o", "r", "t">>,
      <<"s", "t", "a", "t", "s">>,
      <<"s", "t", "a", "t", "u", "s">>,
      <<"h", "i", " ", "t", "h", "e", "r", "e">> }

Handled(line, as, cleared) ==
    [called |-> TRUE, line |-> line, as |-> as, cleared |-> cleared]

\* what process_query may change before reason_and_act answers
query_vars ==
    <<last_query, returned, query_history, now, call_vars, react_vars,
      react_result, mode_switched, reconfigured, appended, n_queries>>

\* handle_user_input(user_query, agent), handle_special_commands included
handle_user_input ==
    /\ pc = "idle"
    /\ \E user_query \in CliLines :
           LET command == command_of(user_query) IN
           IF user_query = <<>> THEN
               /\ cli_handled' = Handled(user_query, "nothing", FALSE)
               /\ UNCHANGED <<query_vars, stats, recent>>
           ELSE IF lower(user_query) = CMD_EXIT THEN
               /\ cli_handled' = Handled(user_query, "exit", FALSE)
               /\ UNCHANGED <<query_vars, stats, recent>>
           ELSE IF command = CMD_HELP THEN
               /\ cli_handled' = Handled(user_query, "help", FALSE)
               /\ UNCHANGED <<query_vars, stats, recent>>
           ELSE IF command = CMD_HISTORY THEN
               LET count == history_count(split(strip(lower(user_query)))) IN
               /\ cli_handled' = Handled(user_query, "history", FALSE)
               /\ recent' = [called |-> TRUE, count |-> count,
                             entries |-> recent_history(query_history, count)]
               /\ UNCHANGED <<query_vars, stats>>
           ELSE IF command = CMD_CLEAR THEN
               /\ cli_handled' = Handled(user_query, "clear", TRUE)
               /\ query_history' = <<>>
               /\ appended' = <<>>
               /\ stats' = NoStats
               /\ recent' = NoRecent
               /\ UNCHANGED <<last_query, returned, now, call_vars, react_vars,
                              react_result, mode_switched, reconfigured, n_queries>>
           ELSE IF command = CMD_EXPORT THEN
               /\ cli_handled' = Handled(user_query, "export", FALSE)
               /\ UNCHANGED <<query_vars, stats, recent>>
           ELSE IF command = CMD_STATS THEN
               /\ cli_handled' = Handled(user_query, "stats", FALSE)
               /\ stats' = history_stats(query_history)
               /\ UNCHANGED <<query_vars, recent>>
           ELSE IF command = CMD_STATUS THEN
               /\ cli_handled' = Handled(user_query, "status", FALSE)
               /\ UNCHANGED <<query_vars, stats, recent>>
           ELSE
               /\ cli_handled' = Handled(user_query, "process_query", FALSE)
               /\ process_query_call(user_query)
               /\ stats' = NoStats
               /\ recent' = NoRecent
    /\ UNCHANGED <<max_history_size, vector_index, competitor_list, is_initialized,
                   initialization_error, hm_query_history, embed_mode,
                   api_key_configured, similarity_top_k, index_call, init_result,
                   hm_appended, n_inits, competitors_arg, analyzed, sub_goals>>

\* run_interactive_session returns at once unless get_status reports the
\* agent initialized: the lines are read by a process whose initialize call
\* succeeded (so the API key is configured and the index exists)
InitCli ==
    /\ max_history_size = DefaultHistorySize
    /\ query_history = <<>>
    /\ vector_index = "index"
    /\ competitor_list = <<TECHCORP>>
    /\ is_initialized = TRUE
    /\ initialization_error = None
    /\ hm_query_history = <<>>
    /\ embed_mode = "search_document"
    /\ api_key_configured = TRUE
    /\ now = 0
    /\ fn = "none" /\ caller = "none" /\ query = <<>> /\ attempt = 0
    /\ max_retries = 0 /\ calls = 0 /\ waits = <<>> /\ signals = <<>>
    /\ result = Idle
    /\ pc = "idle" /\ similarity_k = 0 /\ response = <<>>
    /\ react_result = NoReact /\ mode_switched = FALSE
    /\ reconfigured = "not_called" /\ last_query = <<>> /\ returned = None
    /\ appended = <<>> /\ hm_appended = <<>> /\ stats = NoStats
    /\ n_queries = 0 /\ n_inits = 1
    /\ sub_goals = <<>>
    /\ recent = NoRecent /\ index_call = NoIndexCall
    /\ init_result = Returned(TRUE, None) /\ cli_handled = NoInput
    /\ NothingToAnalyze
    /\ DefaultConfig

NextCli ==
    \/ handle_user_input
    \/ configure_embedding_for_search
    \/ after_configure_search
    \/ safe_query_engine_call
    \/ after_query
    \/ configure_embedding_for_indexing
    \/ after_configure_indexing

SpecCli == InitCli /\ [][NextCli]_vars

----------------------------------------------------------------------------
(* Index building: create_vector_index and initialize_llm_settings *)

\* the messages of the exceptions initialize_llm_settings raises
InitLiterals ==
    [key |-> <<"COHERE_API_KEY is not set or is empty. Please check your .env file.">>,
     rate |-> <<"Rate limit exceeded after {max_retries} attempts. Please try again later.">>,
     unauthorized |-> <<"Invalid API key or unauthorized access: ">>,
     not_found |-> <<"Model '{EMBEDDING_MODEL}' or '{LLM_MODEL}' not found. Please check model names in config.py">>,
     api |-> <<"Cohere API error after {max_retries} attempts: ">>,
     network |-> <<"Network connection failed after {max_retries} attempts. Please check your internet connection.">>,
     failed |-> <<"Failed to initialize LLM settings after {max_retries} attempts: ">>]

\* retry_delay of initialize_llm_settings, in milliseconds
RETRY_DELAY == 1000

\* the except clauses of initialize_llm_settings, for exception e raised in
\* pass a of m
initialize_except(e, a, m, called) ==
    IF e.cls \in COHERE_EXCEPTIONS THEN
        IF is_rate_limit_error(e) THEN
            IF a < m - 1 THEN Retry(RETRY_DELAY * Pow2(a), called)
            ELSE Raise(Exc("RuntimeError", InitLiterals.rate), called)
        ELSE IF is_auth_error(e) THEN
            Raise(Exc("ValueError", InitLiterals.unauthorized \o e.text), called)
        ELSE IF is_not_found_error(e) THEN
            Raise(Exc("ValueError", InitLiterals.not_found), called)
        ELSE
            IF a < m - 1 THEN Retry(RETRY_DELAY, called)
            ELSE Raise(Exc("RuntimeError", InitLiterals.api \o e.text), called)
    ELSE IF e.cls \in NETWORK_EXCEPTIONS THEN
        IF a < m - 1 THEN Retry(RETRY_DELAY * Pow2(a), called)
        ELSE Raise(Exc("ConnectionError", InitLiterals.network), called)
    ELSE IF e.cls = "ValueError" THEN
        Raise(e, called)
    ELSE
        IF a < m - 1 THEN Retry(RETRY_DELAY, called)
        ELSE Raise(Exc("RuntimeError", InitLiterals.failed \o e.text), called)

\* the try block of initialize_llm_settings in pass a of m; b is what
\* constructing the embedding and LLM clients does
initialize_pass(keyok, a, m, b) ==
    IF ~keyok THEN
        initialize_except(Exc("ValueError", InitLiterals.key), a, m, FALSE)
    ELSE IF b.kind = "raise" THEN
        initialize_except(b.err, a, m, TRUE)
    ELSE ReturnNone(TRUE)

\* the except clauses of create_vector_index, for exception e raised in
\* pass a of m
create_index_except(e, a, m) ==
    IF e.cls \in COHERE_EXCEPTIONS THEN
        IF is_rate_limit_error(e) THEN
            IF a < m - 1 THEN Retry(Pow2(a) * 5 * 1000, TRUE)
            ELSE ReturnNone(TRUE)
        ELSE IF Has(e.text, "token") /\ Has(e.text, "limit") THEN
            ReturnNone(TRUE)
        ELSE
            IF a < m - 1 THEN Retry(Pow2(a) * 1000, TRUE)
            ELSE ReturnNone(TRUE)
    ELSE IF e.cls \in NETWORK_EXCEPTIONS THEN
        IF a < m - 1 THEN Retry(Pow2(a) * 3 * 1000, TRUE)
        ELSE ReturnNone(TRUE)
    ELSE IF e.cls = "MemoryError" THEN
        ReturnNone(TRUE)
    ELSE
        IF a < m - 1 THEN Retry(Pow2(a) * 1000, TRUE)
        ELSE ReturnNone(TRUE)

\* What VectorStoreIndex.from_documents does: builds the index or raises.
IndexBehaviours ==
    ConfigBehaviours
    \cup { [kind |-> "raise", text |-> <<>>, err |-> Exc("MemoryError", <<>>)] }

\* a wait of ms milliseconds inserted by loop after its pass k, which ended
\* in an exception of signal sig
Wait(loop, k, ms, sig) == [loop |-> loop, k |-> k, ms |-> ms, sig |-> sig]

\* create_vector_index catches exception e of signal sig in the pass that
\* call c is in
Caught(c, e, sig) ==
    LET o == create_index_except(e, c.attempt, c.m) IN
    IF o.next = "continue"
    THEN [c EXCEPT !.pc = "initialize", !.attempt = @ + 1, !.inner = 0,
                   !.n_waits = @ + 1,
                   !.last_wait = Wait("create_vector_index", c.attempt, o.wait, sig)]
    ELSE [c EXCEPT !.pc = "done", !.result = "None"]

\* a direct call create_vector_index(documents, max_retries = m): no
\* documents, or an empty range(m), give None at once
invoke_create_vector_index ==
    /\ CanInvoke
    /\ index_call.pc \in {"idle", "done"}
    /\ \E documents \in BOOLEAN, m \in Budgets :
           index_call' =
               IF ~documents \/ m <= 0
               THEN [NoIndexCall EXCEPT !.pc = "done", !.m = m, !.result = "None"]
               ELSE [NoIndexCall EXCEPT !.pc = "initialize", !.m = m,
                                        !.result = "pending"]
    /\ UNCHANGED <<agent_vars, hm_query_history, embed_mode, api_key_configured,
                   now, call_vars, react_vars, obs_vars, similarity_top_k, recent,
                   init_result, cli_handled>>

\* one pass of initialize_llm_settings(max_retries = m) called by
\* create_vector_index; what it raises is caught by create_vector_index
initialize_llm_settings ==
    /\ index_call.pc = "initialize"
    /\ \E b \in ConfigBehaviours :
           LET c == index_call
               o == initialize_pass(api_key_configured, c.inner, c.m, b)
               n == [c EXCEPT !.inits = IF o.called THEN @ + 1 ELSE @,
                              !.first_signal = IF o.called /\ @ = "none"
                                               THEN SignalOf(b) ELSE @]
           IN  /\ index_call' =
                      IF o.next = "continue" THEN
                          [n EXCEPT !.inner = @ + 1, !.n_waits = @ + 1,
                                    !.last_wait = Wait("initialize_llm_settings",
                                                       c.inner, o.wait, SignalOf(b))]
                      ELSE IF o.next = "return_none" THEN
                          [n EXCEPT !.pc = "from_documents"]
                      ELSE Caught(n, o.err,
                                  SignalOf([kind |-> "raise", text |-> <<>>, err |-> o.err]))
               \* Settings.embed_model is assigned before the LLM client is
               \* constructed: a pass that raises may or may not have set it
               /\ IF ~o.called THEN UNCHANGED embed_mode
                  ELSE IF b.kind = "ok" THEN embed_mode' = "search_document"
                  ELSE embed_mode' \in {embed_mode, "search_document"}
    /\ UNCHANGED <<agent_vars, hm_query_history, api_key_configured, now,
                   call_vars, react_vars, obs_vars, similarity_top_k, recent,
                   init_result, cli_handled>>

\* VectorStoreIndex.from_documents in a pass of create_vector_index, and the
\* except clauses when it raises
create_vector_index ==
    /\ index_call.pc = "from_documents"
    /\ \E b \in IndexBehaviours :
           index_call' =
               IF b.kind = "ok"
               THEN [index_call EXCEPT !.pc = "done", !.result = "index"]
               ELSE Caught(index_call, b.err, SignalOf(b))
    /\ UNCHANGED <<agent_vars, hm_query_history, embed_mode, api_key_configured,
                   now, call_vars, react_vars, obs_vars, similarity_top_k, recent,
                   init_result, cli_handled>>

InitIndex == AgentInit(DefaultHistorySize) /\ ProcessInit

NextIndex ==
    \/ invoke_create_vector_index
    \/ initialize_llm_settings
    \/ create_vector_index

SpecIndex == InitIndex /\ [][NextIndex]_vars

----------------------------------------------------------------------------
(* Claims about the call layer, checked under SpecCall *)

AllSignals(sig) == \A i \in DOMAIN signals : signals[i] = sig

ValidQuery(q) == Len(strip(q)) >= MinQueryLen

\* C1: whatever the retry budget (0 and negative included) and whatever the
\* provider does, a finished safe_query_engine_call has returned a string:
\* it has neither raised nor returned a missing (None) result.
C1_NeverMissing ==
    Finished("safe_query_engine_call") => result.kind = "return"

\* C2: with a budget max_retries >= 1 and a query that passes the precondition,
\* when every provider call raised a rate-limit error the finished call has
\* made exactly max_retries provider calls and has returned the rate-limit
\* fallback message.
C2_RateLimitExhaustion ==
    ( /\ Finished("safe_query_engine_call")
      /\ max_retries >= 1
      /\ ValidQuery(query)
      /\ AllSignals("rate_limit") )
    => ( /\ calls = max_retries
         /\ result.kind = "return"
         /\ result.value = MSG_RATE_LIMIT )

C2_Witness ==
    /\ Finished("safe_query_engine_call")
    /\ max_retries = 3
    /\ ValidQuery(query)
    /\ AllSignals("rate_limit")
    /\ calls = 3
    /\ result.value = MSG_RATE_LIMIT

CallLayerFunctions ==
    { "safe_query_engine_call", "configure_embedding_for_search",
      "configure_embedding_for_indexing" }

\* the outcome the code gives an error it treats as unauthorized
UnauthorizedOutcome ==
    IF fn = "safe_query_engine_call"
    THEN result.kind = "return" /\ result.value = MSG_REPHRASE
    ELSE /\ result.kind = "raise"
         /\ result.err.cls = "ValueError"
         /\ Has(result.err.text, "invalid")

\* C3: in the generative query call and in both embedding configuration
\* calls, when the first provider attempt raised an authorization error,
\* exactly one provider attempt was made, no wait was inserted, and the
\* outcome is the unauthorized one, whatever the text of the error.
C3_AuthorizationNoRetry ==
    ( /\ fn \in CallLayerFunctions
      /\ signals # <<>>
      /\ signals[1] = "authorization" )
    => ( /\ calls = 1
         /\ waits = <<>>
         /\ result.kind # "pending"
         /\ UnauthorizedOutcome )

\* C4: in the generative query call and in both embedding configuration
\* calls, when the first provider attempt raised a not-found error, the call
\* has failed after exactly one attempt, with no retry and no wait.
C4_NotFoundNoRetry ==
    ( /\ fn \in CallLayerFunctions
      /\ signals # <<>>
      /\ signals[1] = "not_found" )
    => ( /\ calls = 1
         /\ waits = <<>>
         /\ result.kind \in {"return", "raise"} )

\* C5: with a budget max_retries >= 1, safe_query_engine_call on a query that
\* is empty, blank or shorter than 3 characters after trimming makes no
\* provider call and inserts no wait, and ends in its first pass with the
\* validation-failure message.
C5_ShortQueryRejected ==
    ( /\ fn = "safe_query_engine_call"
      /\ max_retries >= 1
      /\ ~ValidQuery(query) )
    => ( /\ calls = 0
         /\ waits = <<>>
         /\ attempt <= 1
         /\ Finished("safe_query_engine_call") =>
                ( /\ attempt = 1
                  /\ result.kind = "return"
                  /\ result.value \in { MSG_VALIDATION \o TXT_QUERY_EMPTY,
                                        MSG_VALIDATION \o TXT_QUERY_SHORT } ) )

C5_Witness ==
    /\ Finished("safe_query_engine_call")
    /\ query = <<"h", "i">>
    /\ max_retries = 3
    /\ calls = 0
    /\ result.value = MSG_VALIDATION \o TXT_QUERY_SHORT

----------------------------------------------------------------------------
(* Claims about the agent and the ReAct step, under Spec *)

\* C6: reason_and_act returns a string and raises nothing, whatever the
\* query, the competitor list (non-string entries included) and the provider
\* do, failures of the intent analysis included.
C6_ReactNeverRaises == react_result.kind # "raise"

\* a call of reason_and_act has returned after it had switched the embedding
\* mode to search, and the reconfiguration to indexing did not fail
ReturnedAfterSwitch ==
    /\ pc = "idle"
    /\ react_result.kind = "return"
    /\ mode_switched
    /\ reconfigured # "failed"

\* C7: when reason_and_act has switched the embedding mode to search and the
\* reconfiguration to indexing does not fail, the mode is indexing again when
\* reason_and_act returns, on every path.
C7_ModeRestored == ReturnedAfterSwitch => react_result.mode = "search_document"

\* a step in which a process_query call that got past its two guards returns
ProcessQueryReturns ==
    /\ pc' = "idle"
    /\ react_result'.kind \in {"return", "raise"}
    /\ pc # "idle" \/ n_queries' = n_queries + 1

Last(s) == s[Len(s)]

\* C9: a process_query call on an initialized agent with a non-blank query
\* appends exactly one entry, holding the trimmed query and the very string
\* handed back, when reason_and_act returns and when it raises.
C9_OneEntryPerQuery ==
    [][ ProcessQueryReturns =>
          /\ appended' # <<>>
          /\ appended' = Append(appended, Last(appended'))
          /\ query_history' # <<>>
          /\ Last(query_history') = Last(appended')
          /\ Last(appended').query = strip(last_query')
          /\ Last(appended').response = returned' ]_vars

\* reason_and_act raised, and the call is in the ledger with what it returned
C9_Witness ==
    /\ pc = "idle"
    /\ is_initialized
    /\ react_result.kind = "raise"
    /\ strip(last_query) # last_query
    /\ query_history # <<>>
    /\ Last(query_history).query = strip(last_query)
    /\ Last(query_history).response = returned

----------------------------------------------------------------------------
(* Claims about the history ledgers, under SpecLedger *)

min(a, b) == IF a < b THEN a ELSE b

\* the last n elements of s
LastN(s, n) == SubSeq(s, Len(s) - min(Len(s), n) + 1, Len(s))

\* C8: after any appends and clears on a ledger of capacity N >= 1 the ledger
\* holds exactly the last min(k, N) entries appended since the latest clear, in
\* append order; its size never exceeds N.
C8_LedgerHoldsLastN ==
    /\ max_history_size >= 1 =>
           /\ query_history = LastN(appended, max_history_size)
           /\ Len(query_history) = min(Len(appended), max_history_size)
    /\ hm_query_history = LastN(hm_appended, MAX_HISTORY_SIZE)
    /\ Len(hm_query_history) <= MAX_HISTORY_SIZE

\* N + 1 entries were appended and the oldest, which differs from the next,
\* is the one that left
C8_Witness ==
    /\ Len(appended) = max_history_size + 1
    /\ appended[1] # appended[2]
    /\ query_history = Tail(appended)

\* C10: get_history_stats on an empty ledger reports total 0 and average 0 and
\* divides nothing; on a non-empty one the total is the size and oldest and
\* newest are the timestamps of the first and the last entry.
C10_StatsOfLedger ==
    stats.called =>
        /\ 0 \notin stats.divisors
        /\ IF query_history = <<>>
           THEN /\ stats.total_queries = 0
                /\ stats.avg_processing_time.num = 0
                /\ stats.avg_processing_time.den # 0
                /\ stats.divisors = {}
           ELSE /\ stats.total_queries = Len(query_history)
                /\ stats.oldest_query = query_history[1].timestamp
                /\ stats.newest_query = Last(query_history).timestamp

\* statistics of a ledger that was filled and then cleared
C10_Witness ==
    /\ stats.called
    /\ n_queries > 0
    /\ query_history = <<>>

----------------------------------------------------------------------------
(* More claims about the call layer, under SpecCall *)

\* C20: when every provider call handed back an empty or blank response,
\* safe_query_engine_call with a budget max_retries >= 2 has made exactly
\* max_retries provider calls (at least one retry), then returned the apology
\* message; it has not raised.
C20_EmptyResponseExhaustion ==
    ( /\ Finished("safe_query_engine_call")
      /\ max_retries >= 2
      /\ signals # <<>>
      /\ AllSignals("empty") )
    => ( /\ calls = max_retries
         /\ calls >= 2
         /\ Len(waits) = max_retries - 1
         /\ result.kind = "return"
         /\ result.value = MSG_APOLOGY )

C20_Witness ==
    /\ Finished("safe_query_engine_call")
    /\ max_retries = 2
    /\ signals = <<"empty", "empty">>
    /\ calls = 2
    /\ result.value = MSG_APOLOGY

----------------------------------------------------------------------------
(* Claims about the query analysis and the planning, under SpecAnalyze *)

\* the number of indicators the analysis found
Indicators == Len(intent.competitors_mentioned) + Len(intent.aspects_requested)

\* C11: the complexity analyze_query_intent computes is complex if a
\* comparison was requested or c > 2, moderate if 0 < c <= 2 without
\* comparison, simple otherwise, c being the number of competitors mentioned
\* plus the number of aspects requested.
C11_Complexity ==
    analyzed = "returned" =>
        /\ intent.query_complexity =
               IF intent.comparison_requested \/ Indicators > 2 THEN "complex"
               ELSE IF Indicators > 0 THEN "moderate"
               ELSE "simple"
        /\ intent.comparison_requested => intent.query_complexity = "complex"
        /\ intent.query_complexity = "simple" <=>
               ( /\ intent.competitors_mentioned = <<>>
                 /\ intent.aspects_requested = <<>>
                 /\ ~intent.comparison_requested )

\* three indicators and no comparison: complex
C11_Witness ==
    /\ analyzed = "returned"
    /\ ~intent.comparison_requested
    /\ Indicators = 3
    /\ intent.query_complexity = "complex"

\* the keywords that make a query a comparison
ComparisonWords ==
    { <<"c", "o", "m", "p", "a", "r", "e">>, <<"v", "e", "r", "s", "u", "s">>, <<"v", "s">>,
      <<"d", "i", "f", "f", "e", "r", "e", "n", "c", "e">>, <<"b", "e", "t", "t", "e", "r">>,
      <<"a", "g", "a", "i", "n", "s", "t">>, <<"b", "e", "t", "w", "e", "e", "n">> }

HasComparisonWord(q) == \E w \in ComparisonWords : Contains(lower(q), w)

\* C12: analyze_query_intent sets comparison_requested and the query type
\* comparison exactly when the lower-cased query contains one of the seven
\* comparison keywords as a substring; otherwise the type is general.
C12_ComparisonDetected ==
    analyzed = "returned" =>
        /\ intent.comparison_requested <=> HasComparisonWord(pq)
        /\ intent.query_type =
               IF HasComparisonWord(pq) THEN "comparison" ELSE "general"

\* a query whose only keyword is "vs"
C12_Witness ==
    /\ analyzed = "returned"
    /\ Contains(pq, <<" ", "v", "s", " ">>)
    /\ intent.comparison_requested
    /\ intent.query_type = "comparison"
    /\ intent.competitors_mentioned = <<>>
    /\ intent.aspects_requested = <<>>

\* the names the analysis looks for
NamesLookedFor == competitor_list_or_default(competitors_arg)

\* name n occurs in the query in some casing, or with its spaces removed or
\* turned into hyphens
Named(n) ==
    \/ Contains(lower(pq), lower(n))
    \/ Contains(lower(pq), replace_space(lower(n), <<>>))
    \/ Contains(lower(pq), replace_space(lower(n), <<"-">>))

Occurrences(x, seq) == Cardinality({k \in DOMAIN seq : seq[k] = x})

\* C13: a competitor of the list that the query names, in any casing or in
\* its space-removed or hyphenated variant, is in competitors_mentioned
\* exactly once, in its title-cased form, also when several variants occur
\* in the query or the list repeats the name.
C13_MentionedOnce ==
    analyzed = "returned" =>
        \A k \in DOMAIN NamesLookedFor :
            Named(NamesLookedFor[k]) =>
                Occurrences(formatted_name(NamesLookedFor[k]),
                            intent.competitors_mentioned) = 1

\* the list repeats a name and the query names it
C13_Witness ==
    /\ analyzed = "returned"
    /\ competitors_arg = <<TECH_CORP, lower(TECH_CORP), TECH_CORP>>
    /\ Named(TECH_CORP)
    /\ intent.competitors_mentioned = <<formatted_name(TECH_CORP)>>

\* the positions in the query at which a name with formatted form m starts
PositionsOf(m) ==
    { p \in 1 .. Len(pq) :
        \E k \in DOMAIN NamesLookedFor :
            /\ formatted_name(NamesLookedFor[k]) = m
            /\ \E v \in DOMAIN competitor_variations(NamesLookedFor[k]) :
                   LET var == competitor_variations(NamesLookedFor[k])[v]
                   IN  /\ p + Len(var) - 1 <= Len(pq)
                       /\ SubSeq(lower(pq), p, p + Len(var) - 1) = var }

FirstPosition(m) == CHOOSE p \in PositionsOf(m) : \A r \in PositionsOf(m) : p <= r

\* C14: competitors_mentioned is in the order in which the competitors first
\* occur in the query text, whatever the order of the competitor list.
C14_OrderOfFirstMention ==
    analyzed = "returned" =>
        \A j, k \in DOMAIN intent.competitors_mentioned :
            j < k => FirstPosition(intent.competitors_mentioned[j])
                         <= FirstPosition(intent.competitors_mentioned[k])

\* C15: for the scenario query and a list holding TechCorp and InnovateLabs
\* the analysis gives competitors_mentioned = ["TechCorp", "InnovateLabs"],
\* a comparison, the aspects {marketing}, and the plan starts with
\* retrieve_specific_competitors, analyze_competitor_data,
\* perform_comparison, generate_insights.
C15_Scenario ==
    ( /\ analyzed = "returned"
      /\ pq = SCENARIO_QUERY
      /\ InSeq(TECH_CORP, NamesLookedFor)
      /\ InSeq(INNOVATE_LABS, NamesLookedFor) )
    => ( /\ intent.competitors_mentioned = <<TECH_CORP, INNOVATE_LABS>>
         /\ intent.comparison_requested
         /\ intent.aspects_requested = <<"marketing">>
         /\ sub_goals # <<>> =>
                SubSeq(sub_goals, 1, 4) =
                    << "retrieve_specific_competitors", "analyze_competitor_data",
                       "perform_comparison", "generate_insights" >> )

SYNTHESIS_TAG == "synthesize_complex_analysis"

\* the plan without the complexity suffix
PlanBody ==
    IF intent.query_complexity = "complex" /\ Last(sub_goals) = SYNTHESIS_TAG
    THEN SubSeq(sub_goals, 1, Len(sub_goals) - 1)
    ELSE sub_goals

\* C16: before the complexity suffix the plan is the sequence of the
\* four-way branch on comparison, number of competitors and aspects.
C16_PlanBranches ==
    sub_goals # <<>> =>
        PlanBody =
            IF intent.comparison_requested /\ Len(intent.competitors_mentioned) >= 2
            THEN << "retrieve_specific_competitors", "analyze_competitor_data",
                    "perform_comparison", "generate_insights" >>
            ELSE IF intent.comparison_requested
            THEN << "retrieve_relevant_data", "identify_comparison_candidates",
                    "perform_comparison" >>
            ELSE IF intent.competitors_mentioned # <<>> /\ intent.aspects_requested # <<>>
            THEN << "retrieve_specific_competitors", "analyze_specific_aspects",
                    "extract_relevant_information" >>
            ELSE IF intent.competitors_mentioned # <<>>
            THEN << "retrieve_specific_competitors", "provide_comprehensive_analysis" >>
            ELSE << "retrieve_relevant_data", "analyze_market_landscape",
                    "provide_general_insights" >>

\* a comparison that names one competitor only
C16_Witness ==
    /\ sub_goals # <<>>
    /\ intent.comparison_requested
    /\ Len(intent.competitors_mentioned) = 1
    /\ PlanBody = << "retrieve_relevant_data", "identify_comparison_candidates",
                     "perform_comparison" >>

TagPlacedRight ==
    sub_goals # <<>> =>
        /\ InSeq(SYNTHESIS_TAG, sub_goals) <=> intent.query_complexity = "complex"
        /\ intent.query_complexity = "complex" =>
               /\ Last(sub_goals) = SYNTHESIS_TAG
               /\ Occurrences(SYNTHESIS_TAG, sub_goals) = 1

SamePlanAgain ==
    ( sub_goals # <<>> /\ sub_goals' # <<>> /\ intent' = intent )
        => sub_goals' = sub_goals

\* C17: plan_sub_goals gives identical plans for identical descriptors, and
\* synthesize_complex_analysis is in the plan exactly when the complexity is
\* complex, then once and as the last element, whichever branch made the
\* rest of the plan.
C17_TagIffComplex == []TagPlacedRight /\ [][SamePlanAgain]_vars

\* a complex descriptor without comparison and without competitors
C17_Witness ==
    /\ sub_goals # <<>>
    /\ analyzed = "given"
    /\ intent.query_complexity = "complex"
    /\ ~intent.comparison_requested
    /\ intent.competitors_mentioned = <<>>
    /\ Last(sub_goals) = SYNTHESIS_TAG

----------------------------------------------------------------------------
(* Claims about reason_and_act called directly, under SpecReact *)

\* configure_embedding_for_search has raised, the API key being missing
\* (a validation failure) or the provider having answered its last attempt
\* with an authorization error
SearchConfigurationRefused ==
    /\ pc = "configure_search"
    /\ Finished("configure_embedding_for_search")
    /\ result.kind = "raise"
    /\ \/ ~api_key_configured
       \/ signals # <<>> /\ Last(signals) = "authorization"

IsConfigurationError(v) ==
    /\ v # <<>>
    /\ Head(v) = Head(MSG_CONFIGURATION)
    /\ Last(v) = Head(MSG_CHECK_KEY)

\* C18: when configuring the embedding for search fails with a validation
\* or an authorization failure, reason_and_act returns the
\* configuration-error message and builds no query engine and makes no
\* retrieval or generation call.
C18_ConfigurationErrorSurfaced ==
    [][ ( SearchConfigurationRefused /\ pc' # pc ) =>
            /\ pc' = "idle"
            /\ ~mode_switched'
            /\ react_result'.kind = "return"
            /\ IsConfigurationError(react_result'.value) ]_vars

\* the step in which execute_retrieval_and_analysis returns the enhanced
\* response
EnhancedResponseReturned == pc = "configure_indexing" /\ pc' = "idle"

\* C19: the metadata footer is appended to the response of the generative
\* call exactly when competitors were mentioned or aspects requested; when
\* neither is, the string returned is that response, character for character.
C19_FooterIffMetadata ==
    [][ EnhancedResponseReturned =>
            IF intent.competitors_mentioned # <<>> \/ intent.aspects_requested # <<>>
            THEN InSeq(Head(FOOTER_RULE), react_result'.value)
            ELSE react_result'.value = response ]_vars

----------------------------------------------------------------------------
(* Further claims about the call layer, under SpecCall *)

ConfigureFunctions ==
    { "configure_embedding_for_search", "configure_embedding_for_indexing" }

\* C21: when the API key is missing, configure_embedding_for_search and
\* configure_embedding_for_indexing (budget >= 1) make exactly one attempt,
\* insert no wait, and fail with a validation failure (ValueError).
C21_MissingKeyOneAttempt ==
    ( /\ fn \in ConfigureFunctions
      /\ ~api_key_configured
      /\ max_retries >= 1 )
    => ( /\ attempt <= 1
         /\ waits = <<>>
         /\ result.kind # "pending" =>
                /\ attempt = 1
                /\ result.kind = "raise"
                /\ result.err.cls = "ValueError" )

\* the waits of a loop that slept base * 2^k milliseconds after pass k
Doubling(base, n) == [k \in 1 .. n |-> base * Pow2(k - 1)]

\* C27: with a budget max_retries >= 1 and a query that passes the
\* precondition, when every provider call raised a network, connection or
\* timeout error the finished safe_query_engine_call has made exactly
\* max_retries provider calls, has waited 1 s, 2 s, 4 s, ... between them, and
\* has returned the connectivity message.
C27_NetworkExhaustion ==
    ( /\ Finished("safe_query_engine_call")
      /\ max_retries >= 1
      /\ ValidQuery(query)
      /\ AllSignals("network") )
    => ( /\ calls = max_retries
         /\ waits = Doubling(1000, max_retries - 1)
         /\ result.kind = "return"
         /\ result.value = MSG_CONNECTIVITY )

C27_Witness ==
    /\ Finished("safe_query_engine_call")
    /\ max_retries = 3
    /\ ValidQuery(query)
    /\ AllSignals("network")
    /\ calls = 3
    /\ waits = <<1000, 2000>>
    /\ result.value = MSG_CONNECTIVITY

\* C28: with a budget max_retries >= 1 and a query that passes the
\* precondition, when every provider call raised an unclassified exception
\* the finished safe_query_engine_call has made exactly max_retries provider
\* calls, has waited the same 1 s between them, and has returned the generic
\* fallback message: nothing is raised to the caller.
C28_UnclassifiedExhaustion ==
    ( /\ Finished("safe_query_engine_call")
      /\ max_retries >= 1
      /\ ValidQuery(query)
      /\ AllSignals("other") )
    => ( /\ calls = max_retries
         /\ waits = [k \in 1 .. max_retries - 1 |-> 1000]
         /\ result.kind = "return"
         /\ result.value = MSG_UNEXPECTED )

C28_Witness ==
    /\ Finished("safe_query_engine_call")
    /\ max_retries = 3
    /\ ValidQuery(query)
    /\ AllSignals("other")
    /\ calls = 3
    /\ waits = <<1000, 1000>>
    /\ result.value = MSG_UNEXPECTED

\* the base, in milliseconds, of the rate-limit wait of each retry loop
RateLimitBase(loop) ==
    IF loop = "safe_query_engine_call" THEN 2000
    ELSE IF loop = "create_vector_index" THEN 5000
    ELSE 1000

\* C24: in every retry loop of the call layer the wait after the rate-limited
\* pass k (k = 0, 1, ...) is base * 2^k for the loop's base, and no loop waits
\* after its final pass.
C24_RateLimitWaitsDouble ==
    /\ ( fn \in CallLayerFunctions /\ Len(signals) = attempt ) =>
           /\ \A i \in DOMAIN waits :
                  signals[i] = "rate_limit" =>
                      waits[i] = RateLimitBase(fn) * Pow2(i - 1)
           /\ max_retries >= 1 => Len(waits) <= max_retries - 1
    /\ index_call.last_wait.sig = "rate_limit" =>
           /\ index_call.last_wait.ms =
                  RateLimitBase(index_call.last_wait.loop) * Pow2(index_call.last_wait.k)
           /\ index_call.last_wait.k < index_call.m - 1

----------------------------------------------------------------------------
(* Claims about index building, under SpecIndex *)

\* C22: a create_vector_index call with budget m constructs the embedding
\* and LLM clients (inside initialize_llm_settings) at most m times, whatever
\* the provider does.
C22_InitAttemptsWithinBudget ==
    index_call.inits <= (IF index_call.m > 0 THEN index_call.m ELSE 0)

\* C23: when the first construction of the clients during index building
\* raised an authorization error, exactly one construction was made, no wait
\* was inserted, and create_vector_index has returned no index.
C23_AuthorizationStopsIndexing ==
    index_call.first_signal = "authorization" =>
        /\ index_call.inits = 1
        /\ index_call.n_waits = 0
        /\ index_call.pc = "done"
        /\ index_call.result = "None"

----------------------------------------------------------------------------
(* Further claims about reason_and_act called directly, under SpecReact *)

\* reason_and_act is about to end after a validation failure: the search
\* configuration raised for the missing API key, or the query did not pass
\* the precondition of safe_query_engine_call
ValidationFailureEnds ==
    \/ /\ pc = "configure_search"
       /\ Finished("configure_embedding_for_search")
       /\ result.kind = "raise"
       /\ ~api_key_configured
    \/ /\ pc = "configure_indexing"
       /\ Finished("configure_embedding_for_indexing")
       /\ ~ValidQuery(pq)

\* C25: every validation failure that arises while reason_and_act processes
\* a query, raised by the embedding configuration or by the query
\* precondition (blank, or shorter than 3 characters), makes reason_and_act
\* return the configuration-error message.
C25_ValidationSurfaced ==
    [][ ( ValidationFailureEnds /\ pc' = "idle" ) =>
            /\ react_result'.kind = "return"
            /\ IsConfigurationError(react_result'.value) ]_vars

\* C29: when configure_embedding_for_indexing fails after the generative
\* call, whatever it raises, reason_and_act returns the string it returns
\* when the reconfiguration succeeds: the enhanced response, footer included.
C29_ReconfigurationFailureIgnored ==
    [][ ( /\ pc = "configure_indexing"
          /\ Finished("configure_embedding_for_indexing")
          /\ result.kind = "raise"
          /\ pc' = "idle" ) =>
            /\ react_result'.kind = "return"
            /\ react_result'.value = enhance_response_based_on_intent(response, intent) ]_vars

C29_Witness ==
    /\ pc = "idle"
    /\ reconfigured = "failed"
    /\ react_result.kind = "return"
    /\ react_result.by = "direct"
    /\ react_result.value = <<"o", "k">>

----------------------------------------------------------------------------
(* Claims about the retrieval depth, under SpecDepth *)

----------------------------------------------------------------------------
(* Further claims about the agent's ledger, under SpecLedger *)

\* C30: get_recent_history(n), n >= 0, returns at most n entries: the
\* min(n, size) entries appended last that the ledger still holds, oldest
\* first.
C30_RecentAtMostN ==
    recent.called =>
        /\ Len(recent.entries) <= recent.count
        /\ recent.entries = LastN(query_history, recent.count)

\* the six statistics: count, average, fastest, slowest, oldest, newest
SixStatistics ==
    { "total_queries", "avg_processing_time", "fastest_query", "slowest_query",
      "oldest_query", "newest_query" }

\* C31: whatever the ledger holds, nothing included, the record
\* get_history_stats returns has all six statistics.
C31_AllSixStatistics ==
    stats.called => stats.keys = SixStatistics

----------------------------------------------------------------------------
(* Further claims about the agent, under Spec *)

\* C32: after any initialize calls, whatever their outcomes, an agent that
\* is initialized has a vector index: get_status never reports initialized
\* together with has_vector_index false.
C32_InitializedHasIndex ==
    get_status.initialized => get_status.has_vector_index

\* C33: after any initialize calls, failures and successes in any order,
\* get_status never reports initialized together with an initialization
\* error.
C33_InitializedHasNoError ==
    ~(get_status.initialized /\ get_status.initialization_error # None)

\* C34: initialize returns a tuple. When it fails it returns (False, message),
\* stores that message in initialization_error and does not set
\* is_initialized; it returns (True, None) and sets is_initialized only when
\* that call loaded the data, prepared documents and got an index.
C34_InitializeReturns ==
    [][ n_inits' = n_inits + 1 =>
            /\ init_result'.called
            /\ IF init_result'.ok
               THEN /\ init_result'.msg = None
                    /\ is_initialized'
                    /\ vector_index' # "None"
                    /\ prepare_documents(competitor_list') # <<>>
               ELSE /\ init_result'.msg # None
                    /\ initialization_error' = init_result'.msg
                    /\ is_initialized' = is_initialized ]_vars

\* an initialize that failed on an agent not yet initialized
C34_Witness ==
    /\ init_result.called
    /\ ~init_result.ok
    /\ init_result.msg = ERR_INDEX
    /\ initialization_error = ERR_INDEX
    /\ ~is_initialized

\* the process_query calls that end before the try block
ProcessQueryRefuses ==
    /\ pc = "idle"
    /\ returned' # returned \/ last_query' # last_query
    /\ ~is_initialized \/ strip(last_query') = <<>>

\* C35: process_query on an agent that is not initialized, or with an empty
\* or blank query, returns an [ERROR] message, calls nothing of the call
\* layer, and leaves the ledger and every other field of the agent as they
\* were.
C35_RefusalChangesNothing ==
    [][ ProcessQueryRefuses =>
            /\ returned' = (IF ~is_initialized THEN MSG_NOT_INITIALIZED
                            ELSE MSG_INVALID_QUERY)
            /\ pc' = "idle"
            /\ UNCHANGED <<agent_vars, call_vars, embed_mode, appended,
                           react_result, mode_switched>> ]_vars

\* a blank query refused by an initialized agent
C35_Witness ==
    /\ returned = MSG_INVALID_QUERY
    /\ strip(last_query) = <<>>
    /\ is_initialized
    /\ query_history = <<>>
    /\ fn = "none"

----------------------------------------------------------------------------
(* Claims about mixed failures in safe_query_engine_call, under SpecCall *)

\* the signals of the failures safe_query_engine_call retries
TransientSignals == {"rate_limit", "network", "empty", "other"}

AllTransient(sigs) == \A i \in DOMAIN sigs : sigs[i] \in TransientSignals

NonEmptyResponses ==
    { b \in QueryBehaviours : b.kind = "response" /\ strip(b.text) # <<>> }

\* C36: in safe_query_engine_call with budget m >= 1, after j < m provider
\* calls that failed transiently (rate limit, network error, empty response,
\* unclassified exception, in any mix) a non-empty response of call j + 1 is
\* returned as it is, after exactly j + 1 provider calls; no provider call
\* follows a non-empty response.
C36_SuccessAfterTransientFailures ==
    ( /\ fn = "safe_query_engine_call"
      /\ max_retries >= 1
      /\ ValidQuery(query) )
    => /\ \A i \in DOMAIN signals : signals[i] = "response" => i = Len(signals)
       /\ ( Running(fn) /\ attempt < max_retries /\ AllTransient(signals) ) =>
              \A b \in NonEmptyResponses :
                  safe_query_pass(query, attempt, max_retries, b) = Return(b.text, TRUE)
       /\ ( /\ Finished(fn)
            /\ signals # <<>>
            /\ Last(signals) = "response"
            /\ AllTransient(SubSeq(signals, 1, Len(signals) - 1)) ) =>
              /\ result.kind = "return"
              /\ \E b \in NonEmptyResponses : result.value = b.text
              /\ calls = Len(signals)
              /\ attempt = calls

C36_Witness ==
    /\ Finished("safe_query_engine_call")
    /\ max_retries = 3
    /\ signals = <<"rate_limit", "empty", "response">>
    /\ calls = 3
    /\ result.value = <<" ", "o", "k", " ">>

\* the fallback message of each failure class
FallbackOf(sig) ==
    IF sig = "rate_limit" THEN MSG_RATE_LIMIT
    ELSE IF sig = "network" THEN MSG_CONNECTIVITY
    ELSE IF sig = "empty" THEN MSG_APOLOGY
    ELSE MSG_UNEXPECTED

\* C37: when transient failures of any mix exhaust the budget of
\* safe_query_engine_call, the provider was called max_retries times in all
\* and the message returned is the fallback of the class of the last
\* failure, whatever the classes of the earlier ones.
C37_FallbackOfLastFailure ==
    ( /\ Finished("safe_query_engine_call")
      /\ max_retries >= 1
      /\ ValidQuery(query)
      /\ signals # <<>>
      /\ AllTransient(signals) )
    => ( /\ calls = max_retries
         /\ Len(signals) = max_retries
         /\ result.kind = "return"
         /\ result.value = FallbackOf(Last(signals)) )

C37_Witness ==
    /\ Finished("safe_query_engine_call")
    /\ max_retries = 3
    /\ ValidQuery(query)
    /\ signals = <<"rate_limit", "other", "network">>
    /\ calls = 3
    /\ result.value = MSG_CONNECTIVITY

----------------------------------------------------------------------------
(* Claims about the command line, under SpecCli *)

CommandWords == { CMD_HELP, CMD_HISTORY, CMD_CLEAR, CMD_EXPORT, CMD_STATS, CMD_STATUS }

\* the line is a command word and nothing else (in any casing), or the word
\* history followed by a count
IsCommandLine(line) ==
    LET parts == split(lower(line)) IN
    \/ lower(line) \in CommandWords
    \/ Len(parts) = 2 /\ parts[1] = CMD_HISTORY /\ is_int(parts[2])

\* the command word of a handler
WordOf(as) ==
    IF as = "help" THEN CMD_HELP
    ELSE IF as = "history" THEN CMD_HISTORY
    ELSE IF as = "clear" THEN CMD_CLEAR
    ELSE IF as = "export" THEN CMD_EXPORT
    ELSE IF as = "stats" THEN CMD_STATS
    ELSE CMD_STATUS

\* C38: the command line handles an input as a special command only when
\* the input is that command word and nothing else (history may be followed
\* by a count); every other non-empty input but exit goes to process_query;
\* the history is cleared only by the input clear.
C38_CommandsAreExactWords ==
    cli_handled.called =>
        LET line == cli_handled.line
            as == cli_handled.as
        IN  /\ as \in {"help", "history", "clear", "export", "stats", "status"} =>
                   /\ IsCommandLine(line)
                   /\ command_of(line) = WordOf(as)
            /\ ( line # <<>> /\ lower(line) # CMD_EXIT /\ ~IsCommandLine(line) ) =>
                   as = "process_query"
            /\ cli_handled.cleared => lower(line) = CMD_CLEAR

====
